---- MODULE Spec2Model ----
(***************************************************************************)
(* The theft-detection dashboard.                                          *)
(*                                                                         *)
(*  - Spec: detection-event synthesis and aggregation, i.e. the            *)
(*    synthesizer simulateVideoAnalysis behind the mock video-analysis     *)
(*    route (src/app/api/alerts/route.ts) and the result shaping of        *)
(*    POST /api/analyze-video, which normalises the reply of the Flask     *)
(*    backend (src/app/api/analyze-video/route.ts).                        *)
(*  - SpecMalformed: the same POST handler against replies whose           *)
(*    detection records lack fields.                                       *)
(*  - SpecProxy: the handlers that forward to the Flask backend            *)
(*    (detect-frame, analyze-video, alerts, dashboard-stats).              *)
(*  - SpecDashboard: the polling of the Dashboard page.                    *)
(*  - SpecView: the VideoUpload page with its analysis, its progress       *)
(*    interval and its export.                                             *)
(*  - SpecStore: the in-memory alerts API (GET, POST and PUT on            *)
(*    mockAlerts).                                                         *)
(*  - SpecMonitor: the LiveMonitor page.                                   *)
(*  - SpecPage: the AlertsPage with its status buttons.                    *)
(*                                                                         *)
(* Timestamps are seconds and are modelled as integers.  A random draw     *)
(* Math.floor(Math.random() * n) is modelled by its outcome in 0..n-1.     *)
(***************************************************************************)
EXTENDS Integers, Sequences, FiniteSets, TLC

\* a route handler and its exchange: the request it received, the call it
\* made to the backend, the backend's reply and its own response
VARIABLES phase, handler, request, call, reply, response

\* the Dashboard page: its component state, the await at which each run of
\* fetchDashboardData stands and whether its alerts response is usable, and
\* the runs that last set stats and recentAlerts
VARIABLES stats, recentAlerts, loading, backendConnected,
          polls, alertsOk, statsPoll, alertsPoll

\* the VideoUpload page: its component state, the running startAnalysis, its
\* progress interval and the intervals left running, the document
\* exportResults wrote in the last step, the response body
\* analysisResults was made from and the name of the file that was analysed
\* for it
VARIABLES selectedFile, isAnalyzing, analysisProgress, analysisResults,
          analysis, progressTimer, orphanTimers, exported, returned,
          resultsFor

\* the in-memory alerts API: its module-level store
VARIABLES mockAlerts

\* the LiveMonitor page: its component state, the interval
\* detectionIntervalRef holds, the intervals that run, the detect-frame
\* requests that have not been answered and the alerts created so far
VARIABLES stream, isLoading, isDetecting, detectionResults, alerts,
          detectionIntervalRef, intervals, inFlight, created

\* the AlertsPage: its alerts and loading state and the PUT requests of
\* updateAlertStatus that have not been answered, in the order they were sent
VARIABLES pageAlerts, pageLoading, pendingPuts

routeVars == <<phase, handler, request, call, reply, response>>

dashboardVars == <<stats, recentAlerts, loading, backendConnected,
                   polls, alertsOk, statsPoll, alertsPoll>>

viewVars == <<selectedFile, isAnalyzing, analysisProgress, analysisResults,
              analysis, progressTimer, orphanTimers, exported, returned,
              resultsFor>>

monitorVars == <<stream, isLoading, isDetecting, detectionResults, alerts,
                 detectionIntervalRef, intervals, inFlight, created>>

pageVars == <<pageAlerts, pageLoading, pendingPuts>>

\* the state outside the route handlers, the Dashboard page and the
\* VideoUpload page
restVars == <<mockAlerts, monitorVars, pageVars>>

vars == <<routeVars, dashboardVars, viewVars, restVars>>

(***************************************************************************)
(* Bounds of the model.                                                    *)
(***************************************************************************)
\* largest number of detections one synthesized batch holds (the code draws 2..9)
MaxDetections == 4
\* largest number of detection records one backend reply holds
MaxReply == 3
\* largest number of detection records one reply with missing fields holds
MaxMalformed == 2
\* largest number of runs of fetchDashboardData
MaxPolls == 2
\* largest number of detection records an analysis shown by the view holds
MaxViewDetections == 2
\* largest number of progress intervals left running
MaxOrphans == 1

\* timestamps a synthesized detection may draw (the code draws from [0, 300))
Timestamps == {10, 15, 45, 50, 52}
\* confidences a detection may carry (the synthesizer draws from 60..99)
Confidences == {70, 80, 90}
\* timestamps a backend detection record may carry
ReplyTimestamps == {15, 45, 50}
\* averageConfidence values a backend reply may carry
ReplyAverages == {90}
\* overallThreatLevel values a backend reply may carry
ReplyLevels == {"High"}

\* the sequences over S of length lo..hi
SeqsOf(S, lo, hi) == UNION {[1..n -> S] : n \in lo..hi}

(***************************************************************************)
(* simulateVideoAnalysis, src/app/api/alerts/route.ts                      *)
(***************************************************************************)
\* outcomes of Math.floor(Math.random() * n) that are drawn: the least and
\* the greatest
RandomBelow(n) == {0, n - 1}

\* the catalog of behaviour descriptions
Descriptions ==
    <<"Suspicious behavior detected - person concealing item",
      "Potential theft activity - item removal without payment",
      "Unusual movement pattern detected",
      "Person lingering in restricted area",
      "Concealment behavior observed",
      "Suspicious interaction with merchandise",
      "Abnormal shopping pattern detected",
      "Potential shoplifting behavior">>

\* faulty variant of SimDetection: the confidence offset is one too large
SimDetectionOffByOne(draw) ==
    [timestamp |-> draw.timestamp,
     confidence |-> draw.confidence + 61,
     detected |-> TRUE,
     description |-> Descriptions[draw.description + 1],
     boundingBox |-> [x |-> draw.x,
                      y |-> draw.y,
                      width |-> draw.width + 100,
                      height |-> draw.height + 150]]

\* one iteration of the generation loop: the detection pushed from its draws
SimDetection(draw) ==
    [timestamp |-> draw.timestamp,
     confidence |-> draw.confidence + 60,
     detected |-> TRUE,
     description |-> Descriptions[draw.description + 1],
     boundingBox |-> [x |-> draw.x,
                      y |-> draw.y,
                      width |-> draw.width + 100,
                      height |-> draw.height + 150]]

\* draws of one iteration whose timestamp and confidence come out in
\* Timestamps and Confidences
SimDraws ==
    [timestamp : Timestamps, confidence : {c - 60 : c \in Confidences},
     description : {0}, x : {0}, y : {0}, width : {0}, height : {0}]

\* draws of one iteration that are all the least or all the greatest
ExtremeDraws ==
    {d \in [timestamp : {0, 299}, confidence : RandomBelow(40),
            description : RandomBelow(8), x : RandomBelow(800),
            y : RandomBelow(600), width : RandomBelow(200),
            height : RandomBelow(300)] :
        \A f \in DOMAIN d : (d[f] = 0) <=> (d.timestamp = 0)}

\* the draws of the generation loop, in push order
SimBatches == SeqsOf(SimDraws, 2, MaxDetections)

\* the draws of a generation loop of every length numDetections allows
ExtremeBatches == UNION {[1..(k + 2) -> ExtremeDraws] : k \in 0..7}

\* the options argument: absent, valid or invalid
SimOptions == {<<>>, [sensitivity |-> "high"], [sensitivity |-> "none", frameRate |-> 0]}

\* the options and draws of a run: the batches of SimBatches with the least
\* frame and time draws, the batches of ExtremeBatches with every option and
\* the least and greatest frame and time draws
SimInputs ==
    {[options |-> <<>>, totalFrames |-> 0, processingTime |-> 0, detections |-> b] :
        b \in SimBatches}
    \cup
    [options : SimOptions, totalFrames : RandomBelow(3000),
     processingTime : RandomBelow(60), detections : ExtremeBatches]

\* s with e inserted behind every element whose timestamp is not larger
RECURSIVE InsertByTimestamp(_, _)
InsertByTimestamp(s, e) ==
    IF s = <<>> THEN <<e>>
    ELSE IF s[Len(s)].timestamp - e.timestamp > 0
         THEN Append(InsertByTimestamp(SubSeq(s, 1, Len(s) - 1), e), s[Len(s)])
         ELSE Append(s, e)

\* detections.sort((a, b) => a.timestamp - b.timestamp): ascending and stable
RECURSIVE SortByTimestamp(_)
SortByTimestamp(s) ==
    IF s = <<>> THEN <<>>
    ELSE InsertByTimestamp(SortByTimestamp(SubSeq(s, 1, Len(s) - 1)), s[Len(s)])

\* detections.reduce((sum, d) => sum + d.confidence, 0)
RECURSIVE SumConfidence(_)
SumConfidence(s) ==
    IF s = <<>> THEN 0
    ELSE SumConfidence(SubSeq(s, 1, Len(s) - 1)) + s[Len(s)].confidence

\* Math.floor(sum / detections.length); the batch is never empty
SimAverageConfidence(detections) == SumConfidence(detections) \div Len(detections)

\* faulty variant of SimThreatLevel: the bands include their lower boundary
SimThreatLevelInclusive(averageConfidence) ==
    IF averageConfidence >= 85 THEN "High"
    ELSE IF averageConfidence >= 70 THEN "Medium"
    ELSE "Low"

\* overallThreatLevel from averageConfidence
SimThreatLevel(averageConfidence) ==
    IF averageConfidence > 85 THEN "High"
    ELSE IF averageConfidence > 70 THEN "Medium"
    ELSE "Low"

\* detections.filter((d) => d.confidence > 80).length
SimHighConfidence(detections) ==
    Len(SelectSeq(detections, LAMBDA d : d.confidence > 80))

\* faulty variant of SimRangeStep: a gap of exactly 30 already splits
SimRangeStepInclusive(ranges, detections, index) ==
    LET detection == detections[index] IN
    IF index = 1 \/ detection.timestamp - detections[index - 1].timestamp >= 30
    THEN Append(ranges,
                [start |-> detection.timestamp,
                 end |-> detection.timestamp + 10,
                 severity |-> IF detection.confidence > 85 THEN "High"
                              ELSE IF detection.confidence > 70 THEN "Medium"
                              ELSE "Low"])
    ELSE [ranges EXCEPT ![Len(ranges)].end = detection.timestamp + 10]

\* the callback of the time-range reduce, applied at position index (from 1)
SimRangeStep(ranges, detections, index) ==
    LET detection == detections[index] IN
    IF index = 1 \/ detection.timestamp - detections[index - 1].timestamp > 30
    THEN Append(ranges,
                [start |-> detection.timestamp,
                 end |-> detection.timestamp + 10,
                 severity |-> IF detection.confidence > 85 THEN "High"
                              ELSE IF detection.confidence > 70 THEN "Medium"
                              ELSE "Low"])
    ELSE [ranges EXCEPT ![Len(ranges)].end = detection.timestamp + 10]

\* the reduce after its first k callbacks
RECURSIVE SimRangesUpTo(_, _)
SimRangesUpTo(detections, k) ==
    IF k = 0 THEN <<>>
    ELSE SimRangeStep(SimRangesUpTo(detections, k - 1), detections, k)

SimTimeRanges(detections) == SimRangesUpTo(detections, Len(detections))

\* the result of simulateVideoAnalysis(options) for the draws of the run;
\* options is not read
simulateVideoAnalysis(options, draws) ==
    LET totalFrames == draws.totalFrames + 1000
        processingTime == draws.processingTime + 30
        detections ==
            SortByTimestamp([i \in 1..Len(draws.detections) |->
                                SimDetection(draws.detections[i])])
        averageConfidence == SimAverageConfidence(detections)
    IN [totalFrames |-> totalFrames,
        processedFrames |-> totalFrames,
        detections |-> detections,
        overallThreatLevel |-> SimThreatLevel(averageConfidence),
        averageConfidence |-> averageConfidence,
        processingTime |-> processingTime,
        summary |-> [totalDetections |-> Len(detections),
                     highConfidenceDetections |-> SimHighConfidence(detections),
                     timeRanges |-> SimTimeRanges(detections)]]

(***************************************************************************)
(* Result shaping of POST /api/analyze-video,                              *)
(* src/app/api/analyze-video/route.ts                                      *)
(***************************************************************************)
\* a detection record of the backend reply
ReplyDetections ==
    [timestamp : ReplyTimestamps, confidence : Confidences, detected : BOOLEAN,
     description : {Descriptions[1]}]

\* the replies that vary in their detections: averageConfidence and
\* overallThreatLevel are present or absent independently of the detections
DetectionReplies ==
    {("detections" :> d) @@ a @@ l :
        d \in SeqsOf(ReplyDetections, 0, MaxReply),
        a \in {<<>>} \cup {("averageConfidence" :> x) : x \in ReplyAverages},
        l \in {<<>>} \cup {("overallThreatLevel" :> x) : x \in ReplyLevels}}

\* totalFrames and processedFrames values a backend reply may carry
ReplyFrames == {-5, 100, 200}
\* processingTime values a backend reply may carry
ReplyTimes == {45}

\* the replies that vary in their frame counts and processing time, each
\* present or absent
FrameReplies ==
    {("detections" :> <<>>) @@ t @@ p @@ s :
        t \in {<<>>} \cup {("totalFrames" :> x) : x \in ReplyFrames},
        p \in {<<>>} \cup {("processedFrames" :> x) : x \in ReplyFrames},
        s \in {<<>>} \cup {("processingTime" :> x) : x \in ReplyTimes}}

\* the replies the backend may give
Replies == DetectionReplies \cup FrameReplies

\* a detection record that may lack its timestamp or its confidence
MalformedDetections ==
    {t @@ c @@ [detected |-> d, description |-> Descriptions[1]] :
        t \in {<<>>} \cup {("timestamp" :> x) : x \in {15, 50}},
        c \in {<<>>} \cup {("confidence" :> x) : x \in {90}},
        d \in BOOLEAN}

\* the replies whose detection records may lack fields
MalformedReplies ==
    {[detections |-> d] : d \in SeqsOf(MalformedDetections, 0, MaxMalformed)}

\* the draws of one boundingBox
BoxDraws == [x : RandomBelow(800), y : RandomBelow(600),
             width : RandomBelow(200), height : RandomBelow(300)]

\* the boundingBox draws with every draw the least
LeastBoxDraws == {b \in BoxDraws : b.x = 0 /\ b.y = 0 /\ b.width = 0 /\ b.height = 0}

\* n boundingBox draws, each the least
LeastBoxes(n) == [i \in 1..n |-> CHOOSE b \in LeastBoxDraws : TRUE]

\* the boundingBox draws that are all the least or all the greatest
ExtremeBoxDraws == {b \in BoxDraws : \A f \in DOMAIN b : (b[f] = 0) <=> (b.x = 0)}

\* the fields of record r among fields; a field r lacks reads undefined and
\* stays absent
Pick(r, fields) == [f \in DOMAIN r \cap fields |-> r[f]]

\* flaskResults.detections?.map(...) || [], with boxes the boundingBox draws
MapDetections(flaskResults, boxes) ==
    IF "detections" \notin DOMAIN flaskResults THEN <<>>
    ELSE [i \in 1..Len(flaskResults.detections) |->
            Pick(flaskResults.detections[i],
                 {"timestamp", "confidence", "detected", "description"})
            @@ [boundingBox |-> [x |-> boxes[i].x,
                                 y |-> boxes[i].y,
                                 width |-> boxes[i].width + 100,
                                 height |-> boxes[i].height + 150]]]

\* a > b on numbers read from fields: false when either field is absent
\* (undefined > b and NaN > b are false)
FieldOver(r, f, b) == f \in DOMAIN r /\ r[f] > b

\* detection.timestamp - previous.timestamp > 30: false when either timestamp
\* is absent (the difference is NaN)
GapOver(detection, previous, b) ==
    /\ "timestamp" \in DOMAIN detection
    /\ "timestamp" \in DOMAIN previous
    /\ detection.timestamp - previous.timestamp > b

\* the fields start: detection.timestamp and end: detection.timestamp + 10 of
\* a range; of an absent timestamp, start is undefined and end is NaN, and
\* the range is modelled without the field
StartOfRange(detection) ==
    IF "timestamp" \in DOMAIN detection THEN [start |-> detection.timestamp] ELSE <<>>

EndOfRange(detection) ==
    IF "timestamp" \in DOMAIN detection THEN [end |-> detection.timestamp + 10] ELSE <<>>

\* range with its end assigned from detection
WithEnd(range, detection) ==
    EndOfRange(detection) @@ Pick(range, DOMAIN range \ {"end"})

\* faulty variant of ValidDetections: nothing is filtered out
ValidDetectionsUnfiltered(detections) == detections

\* detections.filter((d) => d.detected)
ValidDetections(detections) == SelectSeq(detections, LAMBDA d : d.detected)

\* faulty variant of HighConfidenceDetections: a confidence of 80 counts
HighConfidenceDetectionsInclusive(validDetections) ==
    SelectSeq(validDetections, LAMBDA d : "confidence" \in DOMAIN d /\ d.confidence >= 80)

\* validDetections.filter((d) => d.confidence > 80)
HighConfidenceDetections(validDetections) ==
    SelectSeq(validDetections, LAMBDA d : FieldOver(d, "confidence", 80))

\* faulty variant of RangeStep: an extension takes the severity of its event
RangeStepRecomputed(ranges, validDetections, index) ==
    LET detection == validDetections[index]
        severity == IF FieldOver(detection, "confidence", 85) THEN "High"
                    ELSE IF FieldOver(detection, "confidence", 70) THEN "Medium"
                    ELSE "Low"
    IN
    IF index = 1 \/ GapOver(detection, validDetections[index - 1], 30)
    THEN Append(ranges,
                StartOfRange(detection) @@ EndOfRange(detection)
                @@ [severity |-> severity])
    ELSE [ranges EXCEPT ![Len(ranges)] =
             [severity |-> severity] @@ WithEnd(ranges[Len(ranges)], detection)]

\* the callback of the time-range reduce, applied at position index (from 1)
RangeStep(ranges, validDetections, index) ==
    LET detection == validDetections[index] IN
    IF index = 1 \/ GapOver(detection, validDetections[index - 1], 30)
    THEN Append(ranges,
                StartOfRange(detection) @@ EndOfRange(detection)
                @@ [severity |-> IF FieldOver(detection, "confidence", 85) THEN "High"
                                 ELSE IF FieldOver(detection, "confidence", 70) THEN "Medium"
                                 ELSE "Low"])
    ELSE [ranges EXCEPT ![Len(ranges)] = WithEnd(ranges[Len(ranges)], detection)]

\* the reduce after its first k callbacks
RECURSIVE RangesUpTo(_, _)
RangesUpTo(validDetections, k) ==
    IF k = 0 THEN <<>>
    ELSE RangeStep(RangesUpTo(validDetections, k - 1), validDetections, k)

TimeRanges(validDetections) == RangesUpTo(validDetections, Len(validDetections))

\* flaskResults[field] || 0
OrZero(flaskResults, field) ==
    IF field \in DOMAIN flaskResults /\ flaskResults[field] # 0
    THEN flaskResults[field]
    ELSE 0

\* flaskResults.averageConfidence || 0
ReplyAverageConfidence(flaskResults) ==
    IF "averageConfidence" \in DOMAIN flaskResults /\ flaskResults.averageConfidence # 0
    THEN flaskResults.averageConfidence
    ELSE 0

\* flaskResults.overallThreatLevel || "Low"
ReplyThreatLevel(flaskResults) ==
    IF "overallThreatLevel" \in DOMAIN flaskResults /\ flaskResults.overallThreatLevel # ""
    THEN flaskResults.overallThreatLevel
    ELSE "Low"

\* response.results of the POST handler for the backend reply flaskResults
\* and the boundingBox draws boxes
ShapeResults(flaskResults, boxes) ==
    LET detections == MapDetections(flaskResults, boxes)
        validDetections == ValidDetections(detections)
    IN [totalFrames |-> OrZero(flaskResults, "totalFrames"),
        processedFrames |-> OrZero(flaskResults, "processedFrames"),
        detections |-> detections,
        overallThreatLevel |-> ReplyThreatLevel(flaskResults),
        averageConfidence |-> ReplyAverageConfidence(flaskResults),
        processingTime |-> OrZero(flaskResults, "processingTime"),
        summary |-> [totalDetections |-> Len(validDetections),
                     highConfidenceDetections |->
                         Len(HighConfidenceDetections(validDetections)),
                     timeRanges |-> TimeRanges(validDetections)]]

(***************************************************************************)
(* The handlers.  A request is answered in one step; NextRequest waits for *)
(* the next one.  In a response, status is the HTTP status and state is    *)
(* the status field of the JSON body; analysisId (time and random draw)    *)
(* is left out.  A call records the fetch to the backend: whether it was   *)
(* made, the AbortSignal.timeout it was given (the field is absent when    *)
(* none was) and how it ended.                                             *)
(***************************************************************************)
NoRequest == [received |-> FALSE]
NoCall == [made |-> FALSE]
NoReply == [detections |-> <<>>]
NoResponse == [status |-> 0]

\* the ways a fetch without an AbortSignal ends: with a 2xx response, with a
\* rejection (the backend cannot be reached) or with a non-2xx response
Outcomes == {"ok", "unreachable", "non2xx"}

NoFile == [name |-> ""]
NoResults == [present |-> FALSE]
NoAnalysis == [stage |-> "none"]
NoExport == <<>>

\* the Dashboard as mounted: the useState initial values, no run started
InitDashboard ==
    /\ stats = [totalCameras |-> 0, activeCameras |-> 0, alertsToday |-> 0,
                detectionAccuracy |-> 0]
    /\ recentAlerts = <<>>
    /\ loading = TRUE
    /\ backendConnected = FALSE
    /\ polls = [k \in 1..MaxPolls |-> "unstarted"]
    /\ alertsOk = [k \in 1..MaxPolls |-> FALSE]
    /\ statsPoll = 0
    /\ alertsPoll = 0

\* VideoUpload as mounted: the useState initial values
InitView ==
    /\ selectedFile = NoFile
    /\ isAnalyzing = FALSE
    /\ analysisProgress = 0
    /\ analysisResults = NoResults
    /\ analysis = NoAnalysis
    /\ progressTimer = FALSE
    /\ orphanTimers = 0
    /\ exported = NoExport
    /\ returned = NoResponse
    /\ resultsFor = ""

\* const mockAlerts: Alert[] = [...]; timestamps count minutes from the
\* moment the module was loaded
InitialAlerts ==
        << [id |-> "alert_001", timestamp |-> -2, type |-> "theft",
            severity |-> "high", confidence |-> 87,
            location |-> "Camera 2 - Aisle 3",
            description |-> "Suspicious behavior detected - person concealing item",
            status |-> "active",
            metadata |-> [cameraId |-> "cam_002",
                          boundingBox |-> [x |-> 150, y |-> 200,
                                           width |-> 120, height |-> 180]]],
           [id |-> "alert_002", timestamp |-> -15, type |-> "suspicious",
            severity |-> "medium", confidence |-> 72,
            location |-> "Camera 1 - Entrance",
            description |-> "Potential theft activity - item removal without payment",
            status |-> "acknowledged",
            metadata |-> [cameraId |-> "cam_001",
                          boundingBox |-> [x |-> 300, y |-> 150,
                                           width |-> 100, height |-> 160]]],
           [id |-> "alert_003", timestamp |-> -60, type |-> "system",
            severity |-> "low", confidence |-> 100,
            location |-> "System",
            description |-> "All cameras operational - Model updated",
            status |-> "resolved",
            metadata |-> <<>>] >>

\* useState<DetectionResult | null>(null)
NoDetection == [present |-> FALSE]

\* the useState and useRef initial values of LiveMonitor
InitMonitor ==
    /\ stream = FALSE
    /\ isLoading = FALSE
    /\ isDetecting = FALSE
    /\ detectionResults = NoDetection
    /\ alerts = <<>>
    /\ detectionIntervalRef = FALSE
    /\ intervals = 0
    /\ inFlight = 0
    /\ created = 0

\* the useState initial values of AlertsPage; the effect has called
\* fetchAlerts
InitPage ==
    /\ pageAlerts = <<>>
    /\ pageLoading = TRUE
    /\ pendingPuts = <<>>

Init ==
    /\ phase = "idle"
    /\ handler = "none"
    /\ request = NoRequest
    /\ call = NoCall
    /\ reply = NoReply
    /\ response = NoResponse
    /\ InitDashboard
    /\ InitView
    /\ mockAlerts = InitialAlerts
    /\ InitMonitor
    /\ InitPage

\* POST of the mock route: a body without videoFile is refused, any other is
\* answered with a synthesized result
SimulatorPOST ==
    /\ phase = "idle"
    /\ \E hasVideo \in BOOLEAN :
        /\ request' = [received |-> TRUE, videoFile |-> hasVideo]
        /\ IF ~hasVideo
           THEN response' = [status |-> 400, error |-> "No video file provided"]
           ELSE \E input \in SimInputs :
                   response' = [status |-> 200,
                                state |-> "completed",
                                progress |-> 100,
                                results |-> simulateVideoAnalysis(input.options, input)]
    /\ phase' = "done"
    /\ handler' = "simulate"
    /\ UNCHANGED <<dashboardVars, viewVars, restVars>>
    /\ call' = NoCall
    /\ reply' = NoReply

\* POST /api/analyze-video with the backend replying from replies and the
\* boundingBox draws from boxDraws: no file is refused; a backend that cannot
\* be reached or answers non-2xx ends in the catch block; a reply is shaped
AnalyzeVideoPOSTOver(replies, boxDraws) ==
    /\ phase = "idle"
    /\ phase' = "done"
    /\ handler' = "post"
    /\ UNCHANGED <<dashboardVars, viewVars, restVars>>
    /\ \E hasVideo \in BOOLEAN, outcome \in Outcomes :
        /\ request' = [received |-> TRUE, videoFile |-> hasVideo]
        /\ IF ~hasVideo
           THEN /\ response' = [status |-> 400, error |-> "No video file provided"]
                /\ call' = NoCall
                /\ reply' = NoReply
           ELSE IF outcome # "ok"
           THEN /\ response' = [status |-> 500,
                                error |-> "Failed to connect to AI analysis backend. Please ensure the Flask server is running."]
                /\ call' = [made |-> TRUE, outcome |-> outcome]
                /\ reply' = NoReply
           ELSE \E flaskResults \in replies :
                \E boxes \in [1..Len(flaskResults.detections) -> boxDraws] :
                   /\ call' = [made |-> TRUE, outcome |-> outcome]
                   /\ reply' = flaskResults
                   /\ response' = [status |-> 200,
                                   state |-> "completed",
                                   progress |-> 100,
                                   results |-> ShapeResults(flaskResults, boxes)]

\* POST /api/analyze-video against a backend whose replies are well formed
AnalyzeVideoPOST == AnalyzeVideoPOSTOver(Replies, LeastBoxDraws)

\* POST /api/analyze-video against a backend whose detection records may
\* lack fields
AnalyzeVideoPOSTMalformed == AnalyzeVideoPOSTOver(MalformedReplies, ExtremeBoxDraws)

\* the handler has returned; the next request may arrive
NextRequest ==
    /\ phase = "done"
    /\ phase' = "idle"
    /\ handler' = "none"
    /\ UNCHANGED <<dashboardVars, viewVars, restVars>>
    /\ request' = NoRequest
    /\ call' = NoCall
    /\ reply' = NoReply
    /\ response' = NoResponse

Next == SimulatorPOST \/ AnalyzeVideoPOST \/ NextRequest

Spec == Init /\ [][Next]_vars

NextMalformed == AnalyzeVideoPOSTMalformed \/ NextRequest

\* the POST handler against a backend whose detection records may lack fields
SpecMalformed == Init /\ [][NextMalformed]_vars

(***************************************************************************)
(* The proxy handlers of src/app/api/detect-frame/route.ts,                *)
(* src/app/api/alerts/route.ts, src/app/api/dashboard-stats/route.ts and   *)
(* GET of src/app/api/analyze-video/route.ts.  A JSON body that cannot be  *)
(* parsed has parses = FALSE; a field a body lacks is absent from its      *)
(* record.  A string whose prefix the code tests is a sequence of its      *)
(* parts; a query parameter the code parses is a sequence of digits.       *)
(***************************************************************************)
\* the ways a fetch with AbortSignal.timeout ends: as without one, or cut off
\* at the deadline
TimedOutcomes == Outcomes \cup {"timeout"}

\* the errors a failed fetch throws: a rejection for an unreachable backend,
\* the Error thrown for a non-2xx response, and for a fetch cut off by
\* AbortSignal.timeout a TimeoutError, or an AbortError on runtimes that
\* report every abort as one
UpstreamErrors(outcome) ==
    IF outcome = "unreachable"
    THEN {[name |-> "TypeError", message |-> "fetch failed"]}
    ELSE IF outcome = "non2xx"
    THEN {[name |-> "Error",
           message |-> "Flask backend error: 500 - Internal Server Error"]}
    ELSE {[name |-> n, message |-> "The operation was aborted due to timeout"] :
             n \in {"TimeoutError", "AbortError"}}

\* the error request.json() throws for a body that is not JSON
JsonError == [name |-> "SyntaxError", message |-> "Unexpected end of JSON input"]

\* the fetch made with AbortSignal.timeout(ms) and ended as outcome; a failed
\* one keeps the error it threw
TimedCall(ms, outcome, error) ==
    IF outcome = "ok"
    THEN [made |-> TRUE, timeout |-> ms, outcome |-> outcome]
    ELSE [made |-> TRUE, timeout |-> ms, outcome |-> outcome, error |-> error]

\* !value of a body field that holds a string (a sequence of parts) or a number
Falsy(body, field) ==
    \/ field \notin DOMAIN body
    \/ body[field].type = "string" /\ body[field].value = <<>>
    \/ body[field].type = "number" /\ body[field].value = 0

\* s.startsWith(prefix) on sequences of parts
StartsWith(s, prefix) ==
    Len(s) >= Len(prefix) /\ SubSeq(s, 1, Len(prefix)) = prefix

\* the bodies POST /api/detect-frame may receive: not JSON, without image,
\* with an empty image, with a number as image, with a string that is no
\* image data URL, with an image data URL
DetectFrameBodies ==
    {[parses |-> FALSE], [parses |-> TRUE]}
    \cup {[parses |-> TRUE, image |-> i] :
            i \in {[type |-> "string", value |-> <<>>],
                   [type |-> "number", value |-> 12345],
                   [type |-> "string", value |-> <<"data:", "text/", "plain,abc">>],
                   [type |-> "string", value |-> <<"data:", "image/", "jpeg;base64,AAAA">>]}}

\* the detection results the backend may reply with
DetectionResults ==
    {[violence_detected |-> FALSE, confidence |-> 12, threat_level |-> "Low"],
     [violence_detected |-> TRUE, confidence |-> 91, threat_level |-> "High"]}

\* the catch block of POST /api/detect-frame
DetectFrameCatch(error) ==
    IF error.name = "AbortError"
    THEN [status |-> 408, error |-> "Detection request timed out. Please try again."]
    ELSE [status |-> 500,
          error |-> "Failed to connect to AI detection backend: " \o error.message,
          details |-> "Please ensure the Flask server is running and accessible."]

\* POST /api/detect-frame
DetectFramePOST ==
    /\ phase = "idle"
    /\ phase' = "done"
    /\ handler' = "detectFrame"
    /\ UNCHANGED <<dashboardVars, viewVars, restVars>>
    /\ \E body \in DetectFrameBodies, outcome \in TimedOutcomes :
        /\ request' = [received |-> TRUE, body |-> body]
        /\ IF ~body.parses
           THEN /\ call' = NoCall
                /\ reply' = NoReply
                /\ response' = DetectFrameCatch(JsonError)
           ELSE IF Falsy(body, "image")
           THEN /\ call' = NoCall
                /\ reply' = NoReply
                /\ response' = [status |-> 400, error |-> "No image data provided"]
           ELSE IF body.image.type # "string"
           THEN /\ call' = NoCall
                /\ reply' = NoReply
                /\ response' = DetectFrameCatch(
                                  [name |-> "TypeError",
                                   message |-> "body.image.startsWith is not a function"])
           ELSE IF ~StartsWith(body.image.value, <<"data:", "image/">>)
           THEN /\ call' = NoCall
                /\ reply' = NoReply
                /\ response' = [status |-> 400, error |-> "Invalid image format"]
           ELSE IF outcome = "ok"
           THEN \E detectionResult \in DetectionResults :
                   /\ call' = TimedCall(30000, outcome, JsonError)
                   /\ reply' = detectionResult
                   /\ response' = [status |-> 200] @@ detectionResult
           ELSE \E error \in UpstreamErrors(outcome) :
                   /\ call' = TimedCall(30000, outcome, error)
                   /\ reply' = NoReply
                   /\ response' = DetectFrameCatch(error)

\* Number.parseInt of a sequence of decimal digits
RECURSIVE ParseInt(_)
ParseInt(digits) ==
    IF Len(digits) = 1 THEN digits[1]
    ELSE 10 * ParseInt(SubSeq(digits, 1, Len(digits) - 1)) + digits[Len(digits)]

\* searchParams.get(name) || fallback: an absent or empty parameter gives
\* the fallback
ParamOr(params, name, fallback) ==
    IF name \in DOMAIN params /\ params[name] # <<>> THEN params[name] ELSE fallback

\* the query parameters GET /api/alerts reads for its own response
AlertsQueries ==
    {l @@ o : l \in {<<>>} \cup {("limit" :> x) : x \in {<<3>>}},
              o \in {<<>>} \cup {("offset" :> x) : x \in {<<>>, <<1, 0>>}}}

\* an alert of the backend
BackendAlert ==
    [id |-> "alert_001", type |-> "theft", severity |-> "high", state |-> "active"]

\* the alert lists the backend may reply with: a field may be absent
AlertsReplies ==
    {a @@ s @@ t @@ f :
        a \in {<<>>} \cup {("alerts" :> x) : x \in {<<>>, <<BackendAlert>>}},
        s \in {<<>>} \cup {("stats" :> x) :
                  x \in {[total |-> 1, active |-> 1, acknowledged |-> 0, resolved |-> 0]}},
        t \in {<<>>} \cup {("total" :> x) : x \in {0, 1}},
        f \in {<<>>} \cup {("filtered_count" :> x) : x \in {1}}}

\* alertsData.total || alertsData.filtered_count || 0
AlertsTotal(alertsData) ==
    IF "total" \in DOMAIN alertsData /\ alertsData.total # 0
    THEN alertsData.total
    ELSE IF "filtered_count" \in DOMAIN alertsData /\ alertsData.filtered_count # 0
    THEN alertsData.filtered_count
    ELSE 0

\* the response of GET /api/alerts to the backend's list
AlertsShaped(query, alertsData) ==
    [status |-> 200,
     alerts |-> IF "alerts" \in DOMAIN alertsData THEN alertsData.alerts ELSE <<>>,
     stats |-> IF "stats" \in DOMAIN alertsData THEN alertsData.stats ELSE <<>>,
     total |-> AlertsTotal(alertsData),
     offset |-> ParseInt(ParamOr(query, "offset", <<0>>)),
     limit |-> ParseInt(ParamOr(query, "limit", <<5, 0>>))]

\* the catch block of GET /api/alerts
AlertsFallback(error) ==
    [status |-> 500,
     error |-> "Failed to fetch alerts from backend: " \o error.message,
     alerts |-> <<>>,
     stats |-> [total |-> 0, active |-> 0, acknowledged |-> 0, resolved |-> 0],
     total |-> 0,
     offset |-> 0,
     limit |-> 50]

\* GET /api/alerts
AlertsGET ==
    /\ phase = "idle"
    /\ phase' = "done"
    /\ handler' = "alertsGET"
    /\ UNCHANGED <<dashboardVars, viewVars, restVars>>
    /\ \E query \in AlertsQueries, outcome \in TimedOutcomes :
        /\ request' = [received |-> TRUE, query |-> query]
        /\ IF outcome = "ok"
           THEN \E alertsData \in AlertsReplies :
                   /\ call' = TimedCall(10000, outcome, JsonError)
                   /\ reply' = alertsData
                   /\ response' = AlertsShaped(query, alertsData)
           ELSE \E error \in UpstreamErrors(outcome) :
                   /\ call' = TimedCall(10000, outcome, error)
                   /\ reply' = NoReply
                   /\ response' = AlertsFallback(error)

\* the bodies POST /api/alerts may receive: not JSON, or with each required
\* field present or absent
CreateAlertBodies ==
    {[parses |-> FALSE]}
    \cup {[parses |-> TRUE] @@ t @@ s @@ l @@ d :
            t \in {<<>>, [type |-> [type |-> "string", value |-> <<"theft">>]]},
            s \in {<<>>, [severity |-> [type |-> "string", value |-> <<"high">>]]},
            l \in {<<>>, [location |-> [type |-> "string", value |-> <<"Camera 1">>]]},
            d \in {<<>>, [description |-> [type |-> "string", value |-> <<"Concealment">>]]}}

\* POST /api/alerts
AlertsPOST ==
    /\ phase = "idle"
    /\ phase' = "done"
    /\ handler' = "alertsPOST"
    /\ UNCHANGED <<dashboardVars, viewVars, restVars>>
    /\ \E body \in CreateAlertBodies, outcome \in TimedOutcomes :
        /\ request' = [received |-> TRUE, body |-> body]
        /\ IF ~body.parses
           THEN /\ call' = NoCall
                /\ reply' = NoReply
                /\ response' = [status |-> 500,
                                error |-> "Failed to create alert: " \o JsonError.message]
           ELSE IF \/ Falsy(body, "type") \/ Falsy(body, "severity")
                   \/ Falsy(body, "location") \/ Falsy(body, "description")
           THEN /\ call' = NoCall
                /\ reply' = NoReply
                /\ response' = [status |-> 400,
                                error |-> "Missing required fields: type, severity, location, description"]
           ELSE IF outcome = "ok"
           THEN /\ call' = TimedCall(10000, outcome, JsonError)
                /\ reply' = BackendAlert
                /\ response' = [status |-> 201] @@ BackendAlert
           ELSE \E error \in UpstreamErrors(outcome) :
                   /\ call' = TimedCall(10000, outcome, error)
                   /\ reply' = NoReply
                   /\ response' = [status |-> 500,
                                   error |-> "Failed to create alert: " \o error.message]

\* the bodies PUT /api/alerts/[id] may receive: not JSON, without status,
\* with a status
UpdateAlertBodies ==
    {[parses |-> FALSE], [parses |-> TRUE],
     [parses |-> TRUE, status |-> [type |-> "string", value |-> <<"acknowledged">>]]}

\* PUT /api/alerts/[id]; alertId is the last segment of the path
AlertsPUT ==
    /\ phase = "idle"
    /\ phase' = "done"
    /\ handler' = "alertsPUT"
    /\ UNCHANGED <<dashboardVars, viewVars, restVars>>
    /\ \E alertId \in {"", "alert_001"}, body \in UpdateAlertBodies,
          outcome \in TimedOutcomes :
        /\ request' = [received |-> TRUE, alertId |-> alertId, body |-> body]
        /\ IF alertId = ""
           THEN /\ call' = NoCall
                /\ reply' = NoReply
                /\ response' = [status |-> 400, error |-> "Alert ID required"]
           ELSE IF ~body.parses
           THEN /\ call' = NoCall
                /\ reply' = NoReply
                /\ response' = [status |-> 500,
                                error |-> "Failed to update alert: " \o JsonError.message]
           ELSE IF Falsy(body, "status")
           THEN /\ call' = NoCall
                /\ reply' = NoReply
                /\ response' = [status |-> 400, error |-> "Status field required"]
           ELSE IF outcome = "ok"
           THEN /\ call' = TimedCall(10000, outcome, JsonError)
                /\ reply' = [BackendAlert EXCEPT !.state = "acknowledged"]
                /\ response' = [status |-> 200]
                               @@ [BackendAlert EXCEPT !.state = "acknowledged"]
           ELSE \E error \in UpstreamErrors(outcome) :
                   /\ call' = TimedCall(10000, outcome, error)
                   /\ reply' = NoReply
                   /\ response' = [status |-> 500,
                                   error |-> "Failed to update alert: " \o error.message]

\* the statistics the backend may reply with
BackendStats ==
    {[totalCameras |-> 4, activeCameras |-> a, alertsToday |-> n, detectionAccuracy |-> 94] :
        a \in {3, 4}, n \in {0, 2}}

\* the catch block of GET /api/dashboard-stats: fallbackStats and the error
StatsFallback(error) ==
    [status |-> 503,
     totalCameras |-> 4,
     activeCameras |-> 0,
     alertsToday |-> 0,
     detectionAccuracy |-> 0,
     totalAlerts |-> 0,
     activeAlerts |-> 0,
     modelLoaded |-> FALSE,
     systemStatus |-> "offline",
     error |-> "Backend unavailable: " \o error.message]

\* GET /api/dashboard-stats
DashboardStatsGET ==
    /\ phase = "idle"
    /\ phase' = "done"
    /\ handler' = "dashboardStats"
    /\ UNCHANGED <<dashboardVars, viewVars, restVars>>
    /\ request' = [received |-> TRUE]
    /\ \E outcome \in TimedOutcomes :
        IF outcome = "ok"
        THEN \E backendStats \in BackendStats :
                /\ call' = TimedCall(10000, outcome, JsonError)
                /\ reply' = backendStats
                /\ response' = [status |-> 200] @@ backendStats
        ELSE \E error \in UpstreamErrors(outcome) :
                /\ call' = TimedCall(10000, outcome, error)
                /\ reply' = NoReply
                /\ response' = StatsFallback(error)

\* the analysis states the backend may reply with
AnalysisStates ==
    {[analysisId |-> "analysis_1", state |-> s, progress |-> p] :
        s \in {"processing", "completed"}, p \in {40, 100}}

\* GET /api/analyze-video: the fetch is made without an AbortSignal; a
\* non-2xx response and a rejection are both answered with the default status
AnalyzeVideoGET ==
    /\ phase = "idle"
    /\ phase' = "done"
    /\ handler' = "get"
    /\ UNCHANGED <<dashboardVars, viewVars, restVars>>
    /\ \E id \in {"", "analysis_1"}, outcome \in Outcomes :
        /\ request' = [received |-> TRUE, id |-> id]
        /\ IF id = ""
           THEN /\ call' = NoCall
                /\ reply' = NoReply
                /\ response' = [status |-> 400, error |-> "Analysis ID required"]
           ELSE IF outcome = "ok"
           THEN \E analysisState \in AnalysisStates :
                   /\ call' = [made |-> TRUE, outcome |-> outcome]
                   /\ reply' = analysisState
                   /\ response' = [status |-> 200] @@ analysisState
           ELSE /\ call' = [made |-> TRUE, outcome |-> outcome]
                /\ reply' = NoReply
                /\ response' = [status |-> 200,
                                analysisId |-> id,
                                state |-> "failed",
                                error |-> IF outcome = "non2xx"
                                          THEN "Backend analysis service unavailable"
                                          ELSE "Could not connect to analysis backend"]

\* POST /api/analyze-video against a backend whose replies vary in their
\* frame counts
AnalyzeVideoPOSTFrames == AnalyzeVideoPOSTOver(FrameReplies, LeastBoxDraws)

NextProxy ==
    \/ DetectFramePOST
    \/ AnalyzeVideoPOSTFrames
    \/ AnalyzeVideoGET
    \/ AlertsGET
    \/ AlertsPOST
    \/ AlertsPUT
    \/ DashboardStatsGET
    \/ NextRequest

\* the seven proxy handlers
SpecProxy == Init /\ [][NextProxy]_vars

(***************************************************************************)
(* The Dashboard page, src/app/api/analyze-video/route.ts from line 173.   *)
(* fetchDashboardData runs on mount and then from an interval; a run       *)
(* suspends at its awaits, so the runs of several polls interleave.        *)
(* polls[k] is the await at which run k stands; statsPoll and alertsPoll   *)
(* record the run that last set stats and recentAlerts (0: none yet).      *)
(***************************************************************************)
\* the bodies of the 2xx responses of GET /api/dashboard-stats: the backend's
\* statistics, which may carry an error field of the backend's own
StatsBodies ==
    BackendStats
    \cup {[totalCameras |-> 4, activeCameras |-> 0, alertsToday |-> 0,
           detectionAccuracy |-> 0, error |-> "Model not loaded"]}

\* the bodies of the 2xx responses of GET /api/alerts?limit=3&status=active
AlertsBodies ==
    {Pick(AlertsShaped(("limit" :> <<3>>), alertsData),
          {"alerts", "stats", "total", "offset", "limit"}) :
        alertsData \in {a \in AlertsReplies : DOMAIN a = {"alerts"}}}

\* the statistics shown when the statistics request failed
OfflineStats ==
    [totalCameras |-> 4, activeCameras |-> 0, alertsToday |-> 0, detectionAccuracy |-> 0]

\* the poll fetchDashboardData is called for next
NextPoll == CHOOSE k \in 1..MaxPolls :
                /\ polls[k] = "unstarted"
                /\ \A j \in 1..(k - 1) : polls[j] # "unstarted"

\* the mount effect or the interval calls fetchDashboardData: both requests
\* are sent and the run awaits Promise.allSettled
FetchDashboardData ==
    /\ \E k \in 1..MaxPolls : polls[k] = "unstarted"
    /\ polls' = [polls EXCEPT ![NextPoll] = "settling"]
    /\ UNCHANGED <<stats, recentAlerts, loading, backendConnected, alertsOk,
                   statsPoll, alertsPoll>>
    /\ UNCHANGED <<routeVars, viewVars, restVars>>

\* the part of run k that handles the alerts response, up to the finally
\* block, when the response is not usable
AlertsUnavailable(k) ==
    /\ recentAlerts' = <<>>
    /\ alertsPoll' = k
    /\ loading' = FALSE

\* both requests of run k have settled; usable says for each whether it is
\* fulfilled with an ok response.  Statistics that are not usable are
\* replaced at once; usable ones are awaited as JSON
Settled(k) ==
    /\ polls[k] = "settling"
    /\ \E statsUsable \in BOOLEAN, alertsUsable \in BOOLEAN :
        /\ alertsOk' = [alertsOk EXCEPT ![k] = alertsUsable]
        /\ IF statsUsable
           THEN /\ polls' = [polls EXCEPT ![k] = "statsJson"]
                /\ UNCHANGED <<stats, recentAlerts, loading, backendConnected,
                               statsPoll, alertsPoll>>
           ELSE /\ stats' = OfflineStats
                /\ backendConnected' = FALSE
                /\ statsPoll' = k
                /\ IF alertsUsable
                   THEN /\ polls' = [polls EXCEPT ![k] = "alertsJson"]
                        /\ UNCHANGED <<recentAlerts, loading, alertsPoll>>
                   ELSE /\ polls' = [polls EXCEPT ![k] = "done"]
                        /\ AlertsUnavailable(k)
    /\ UNCHANGED <<routeVars, viewVars, restVars>>

\* the statistics of run k have been read: setStats, setBackendConnected,
\* then the alerts response is handled
StatsRead(k) ==
    /\ polls[k] = "statsJson"
    /\ \E statsData \in StatsBodies :
        /\ stats' = statsData
        /\ backendConnected' = ("error" \notin DOMAIN statsData)
    /\ statsPoll' = k
    /\ IF alertsOk[k]
       THEN /\ polls' = [polls EXCEPT ![k] = "alertsJson"]
            /\ UNCHANGED <<recentAlerts, loading, alertsPoll>>
       ELSE /\ polls' = [polls EXCEPT ![k] = "done"]
            /\ AlertsUnavailable(k)
    /\ UNCHANGED alertsOk
    /\ UNCHANGED <<routeVars, viewVars, restVars>>

\* the alerts of run k have been read: setRecentAlerts, then the finally block
AlertsRead(k) ==
    /\ polls[k] = "alertsJson"
    /\ \E alertsData \in AlertsBodies :
        recentAlerts' = IF "alerts" \in DOMAIN alertsData THEN alertsData.alerts ELSE <<>>
    /\ alertsPoll' = k
    /\ loading' = FALSE
    /\ polls' = [polls EXCEPT ![k] = "done"]
    /\ UNCHANGED <<stats, backendConnected, alertsOk, statsPoll>>
    /\ UNCHANGED <<routeVars, viewVars, restVars>>

SettledSome == \E k \in 1..MaxPolls : Settled(k)
StatsReadSome == \E k \in 1..MaxPolls : StatsRead(k)
AlertsReadSome == \E k \in 1..MaxPolls : AlertsRead(k)

NextDashboard ==
    \/ FetchDashboardData
    \/ SettledSome
    \/ StatsReadSome
    \/ AlertsReadSome

\* the Dashboard page polling
SpecDashboard == Init /\ [][NextDashboard]_vars

(***************************************************************************)
(* The VideoUpload page, src/app/video-upload/page.tsx lines 1-435.        *)
(* startAnalysis suspends at await fetch and at await response.json();     *)
(* analysis.stage is the await at which the running call stands.  The      *)
(* Start Analysis button is disabled while isAnalyzing, so one call runs   *)
(* at a time.  A progress interval that its call never cleared keeps       *)
(* running: orphanTimers counts these.  videoUrl and the player state are  *)
(* left out.  JSON text is a sequence of members, each a key and a value.  *)
(***************************************************************************)
\* the files the user may pick: two videos and a file that is no video
Files ==
    {[name |-> "a.mp4", type |-> <<"video/", "mp4">>],
     [name |-> "b.mp4", type |-> <<"video/", "mp4">>],
     [name |-> "notes.txt", type |-> <<"text/", "plain">>]}

\* the detection records of the backend replies behind the analyses shown
ViewDetections ==
    [timestamp : {15, 50}, confidence : {90}, detected : {TRUE},
     description : {Descriptions[1]}]

\* the backend replies behind the analyses shown
ViewReplies ==
    {[detections |-> d, totalFrames |-> 200, processedFrames |-> 200,
      overallThreatLevel |-> "High", averageConfidence |-> 90, processingTime |-> 45] :
        d \in SeqsOf(ViewDetections, 0, MaxViewDetections)}

\* the bodies of the 2xx responses of POST /api/analyze-video
AnalysisBodies ==
    {[state |-> "completed", progress |-> 100,
      results |-> ShapeResults(flaskResults, LeastBoxes(Len(flaskResults.detections)))] :
        flaskResults \in ViewReplies}

\* the amounts the progress interval adds (Math.random() * 5)
ProgressSteps == {2, 4}

\* realResults: the fields of the response body the view keeps
RealResults(body) ==
    LET results == IF "results" \in DOMAIN body THEN body.results ELSE <<>>
    IN [totalFrames |-> OrZero(results, "totalFrames"),
        processedFrames |-> OrZero(results, "processedFrames"),
        detections |->
            IF "detections" \in DOMAIN results
            THEN [i \in 1..Len(results.detections) |->
                     Pick(results.detections[i],
                          {"timestamp", "confidence", "detected", "description"})]
            ELSE <<>>,
        overallThreatLevel |->
            IF "overallThreatLevel" \in DOMAIN results /\ results.overallThreatLevel # ""
            THEN results.overallThreatLevel
            ELSE "Low",
        averageConfidence |-> OrZero(results, "averageConfidence"),
        processingTime |-> OrZero(results, "processingTime")]

\* the keys whose value is an object and those whose value is an array of
\* objects
ObjectKeys == {"analysis", "boundingBox", "summary"}
ArrayKeys == {"detections", "timeRanges"}

\* the elements of S in some order
RECURSIVE SetToSeq(_)
SetToSeq(S) ==
    IF S = {} THEN <<>>
    ELSE LET x == CHOOSE x \in S : TRUE IN <<x>> \o SetToSeq(S \ {x})

\* JSON.stringify of an object: one member for each property it has; a
\* property that is undefined (absent) is left out
RECURSIVE Stringify(_)
Stringify(object) ==
    LET keys == SetToSeq(DOMAIN object) IN
    [i \in 1..Len(keys) |->
        [key |-> keys[i],
         value |-> IF keys[i] \in ObjectKeys
                   THEN Stringify(object[keys[i]])
                   ELSE IF keys[i] \in ArrayKeys
                   THEN [j \in 1..Len(object[keys[i]]) |->
                            Stringify(object[keys[i]][j])]
                   ELSE object[keys[i]]]]

\* JSON.parse of the text of an object: the last member of a key gives the
\* property
RECURSIVE Parse(_)
Parse(members) ==
    LET ValueOf(k) ==
            members[CHOOSE i \in 1..Len(members) :
                       /\ members[i].key = k
                       /\ \A j \in (i + 1)..Len(members) : members[j].key # k].value
    IN [k \in {members[i].key : i \in 1..Len(members)} |->
           IF k \in ObjectKeys THEN Parse(ValueOf(k))
           ELSE IF k \in ArrayKeys
           THEN [j \in 1..Len(ValueOf(k)) |-> Parse(ValueOf(k)[j])]
           ELSE ValueOf(k)]

\* the file input changed (the upload card is rendered while no file is
\* selected): a video is selected and the results are cleared, anything
\* else is refused with an alert
HandleFileSelect ==
    /\ selectedFile = NoFile
    /\ \E file \in Files :
        IF StartsWith(file.type, <<"video/">>)
        THEN /\ selectedFile' = file
             /\ analysisResults' = NoResults
             /\ analysisProgress' = 0
             /\ resultsFor' = ""
        ELSE UNCHANGED <<selectedFile, analysisResults, analysisProgress, resultsFor>>
    /\ exported' = NoExport
    /\ UNCHANGED <<isAnalyzing, analysis, progressTimer, orphanTimers, returned>>
    /\ UNCHANGED <<routeVars, dashboardVars, restVars>>

\* a file was dropped on the upload card: as handleFileSelect, without alert
HandleDrop ==
    /\ selectedFile = NoFile
    /\ \E file \in Files :
        IF StartsWith(file.type, <<"video/">>)
        THEN /\ selectedFile' = file
             /\ analysisResults' = NoResults
             /\ analysisProgress' = 0
             /\ resultsFor' = ""
        ELSE UNCHANGED <<selectedFile, analysisResults, analysisProgress, resultsFor>>
    /\ exported' = NoExport
    /\ UNCHANGED <<isAnalyzing, analysis, progressTimer, orphanTimers, returned>>
    /\ UNCHANGED <<routeVars, dashboardVars, restVars>>

\* the Reset button (rendered while a file is selected)
Reset ==
    /\ selectedFile # NoFile
    /\ selectedFile' = NoFile
    /\ analysisResults' = NoResults
    /\ resultsFor' = ""
    /\ exported' = NoExport
    /\ UNCHANGED <<isAnalyzing, analysisProgress, analysis, progressTimer,
                   orphanTimers, returned>>
    /\ UNCHANGED <<routeVars, dashboardVars, restVars>>

\* the Start Analysis button (rendered while a file is selected, disabled
\* while isAnalyzing): startAnalysis up to await fetch
StartAnalysis ==
    /\ selectedFile # NoFile
    /\ ~isAnalyzing
    /\ isAnalyzing' = TRUE
    /\ analysisProgress' = 0
    /\ analysis' = [stage |-> "fetching", file |-> selectedFile.name]
    /\ exported' = NoExport
    /\ UNCHANGED <<selectedFile, analysisResults, progressTimer, orphanTimers,
                   returned, resultsFor>>
    /\ UNCHANGED <<routeVars, dashboardVars, restVars>>

\* the call of startAnalysis that ended in the catch block
FailedAnalysis == [stage |-> "failed"]

\* the catch block of startAnalysis
AnalysisFailed ==
    /\ isAnalyzing' = FALSE
    /\ analysisProgress' = 0
    /\ analysis' = FailedAnalysis

\* the fetch of startAnalysis has ended: a rejection and a response that is
\* not ok end in the catch block; an ok response starts the progress
\* interval and is awaited as JSON
ResponseArrived ==
    /\ analysis.stage = "fetching"
    /\ \E outcome \in {"ok", "notOk", "rejected"} :
        IF outcome = "ok"
        THEN /\ progressTimer' = TRUE
             /\ analysis' = [analysis EXCEPT !.stage = "reading"]
             /\ UNCHANGED <<isAnalyzing, analysisProgress>>
        ELSE /\ AnalysisFailed
             /\ UNCHANGED progressTimer
    /\ exported' = NoExport
    /\ UNCHANGED <<selectedFile, analysisResults, orphanTimers, returned, resultsFor>>
    /\ UNCHANGED <<routeVars, dashboardVars, restVars>>

\* the progress interval of the running call fires
ProgressTick ==
    /\ progressTimer
    /\ IF analysisProgress >= 95
       THEN /\ progressTimer' = FALSE
            /\ analysisProgress' = 95
       ELSE /\ \E step \in ProgressSteps : analysisProgress' = analysisProgress + step
            /\ UNCHANGED progressTimer
    /\ exported' = NoExport
    /\ UNCHANGED <<selectedFile, isAnalyzing, analysisResults, analysis,
                   orphanTimers, returned, resultsFor>>
    /\ UNCHANGED <<routeVars, dashboardVars, restVars>>

\* a progress interval that was never cleared fires
OrphanTick ==
    /\ orphanTimers > 0
    /\ IF analysisProgress >= 95
       THEN /\ orphanTimers' = orphanTimers - 1
            /\ analysisProgress' = 95
       ELSE /\ \E step \in ProgressSteps : analysisProgress' = analysisProgress + step
            /\ UNCHANGED orphanTimers
    /\ exported' = NoExport
    /\ UNCHANGED <<selectedFile, isAnalyzing, analysisResults, analysis,
                   progressTimer, returned, resultsFor>>
    /\ UNCHANGED <<routeVars, dashboardVars, restVars>>

\* response.json() of startAnalysis has ended.  A body that cannot be read
\* ends in the catch block with the interval still running.  A body that
\* was read clears the interval; one with an error field ends in the catch
\* block, any other is mapped to realResults and shown
BodyRead ==
    /\ analysis.stage = "reading"
    /\ \E readable \in BOOLEAN :
        IF ~readable
        THEN /\ progressTimer => orphanTimers < MaxOrphans
             /\ AnalysisFailed
             /\ progressTimer' = FALSE
             /\ orphanTimers' = IF progressTimer THEN orphanTimers + 1 ELSE orphanTimers
             /\ UNCHANGED <<analysisResults, returned, resultsFor>>
        ELSE \E body \in AnalysisBodies \cup {[error |-> "Analysis failed"]} :
                /\ progressTimer' = FALSE
                /\ UNCHANGED orphanTimers
                /\ IF "error" \in DOMAIN body
                   THEN /\ AnalysisFailed
                        /\ UNCHANGED <<analysisResults, returned, resultsFor>>
                   ELSE /\ analysisProgress' = 100
                        /\ analysisResults' = RealResults(body)
                        /\ isAnalyzing' = FALSE
                        /\ analysis' = NoAnalysis
                        /\ returned' = body
                        /\ resultsFor' = analysis.file
    /\ exported' = NoExport
    /\ UNCHANGED selectedFile
    /\ UNCHANGED <<routeVars, dashboardVars, restVars>>

\* the Export Results button (rendered while a file is selected and
\* analysisResults is set): the document written to the download
ExportResults ==
    /\ selectedFile # NoFile
    /\ analysisResults # NoResults
    /\ \E exportDate \in {"2025-01-01T00:00:00.000Z"} :
        exported' = Stringify([filename |-> selectedFile.name,
                               analysis |-> analysisResults,
                               exportDate |-> exportDate])
    /\ UNCHANGED <<selectedFile, isAnalyzing, analysisProgress, analysisResults,
                   analysis, progressTimer, orphanTimers, returned, resultsFor>>
    /\ UNCHANGED <<routeVars, dashboardVars, restVars>>

NextView ==
    \/ HandleFileSelect
    \/ HandleDrop
    \/ Reset
    \/ StartAnalysis
    \/ ResponseArrived
    \/ ProgressTick
    \/ OrphanTick
    \/ BodyRead
    \/ ExportResults

\* the VideoUpload page
SpecView == Init /\ [][NextView]_vars

(***************************************************************************)
(* The in-memory alerts API of src/app/api/dashboard-stats/route.ts (from  *)
(* line 65): GET, POST and PUT on the module-level array mockAlerts.  A    *)
(* response is its HTTP status and its JSON body.  Timestamps are instants *)
(* in minutes, which toISOString() and new Date(...).getTime() carry       *)
(* unchanged.                                                              *)
(***************************************************************************)
\* largest number of alerts POST adds to the store
MaxPosts == 2

\* the instants Date.now() may give while requests are handled; the clock of
\* the host may be set back between two requests
Instants == {1, 2}

\* Number.parseInt of a decimal number with an optional sign
ParseSignedInt(text) ==
    IF text.negative THEN 0 - ParseInt(text.digits) ELSE ParseInt(text.digits)

\* s.slice(start, end), with indices counted from 0: a negative index counts
\* from the end, and both are brought into 0..Len(s)
Slice(s, start, end) ==
    LET SliceIndex(k) ==
            IF k < 0 THEN (IF Len(s) + k < 0 THEN 0 ELSE Len(s) + k)
            ELSE IF k > Len(s) THEN Len(s) ELSE k
    IN  SubSeq(s, SliceIndex(start) + 1, SliceIndex(end))

\* alerts.filter((alert) => alert[field] === value)
RECURSIVE FilterBy(_, _, _)
FilterBy(list, field, value) ==
    IF list = <<>> THEN <<>>
    ELSE IF list[1][field] = value
         THEN <<list[1]>> \o FilterBy(Tail(list), field, value)
         ELSE FilterBy(Tail(list), field, value)

\* sorted s with e inserted behind every element that is not older than e
RECURSIVE InsertNewestFirst(_, _)
InsertNewestFirst(s, e) ==
    IF s = <<>> THEN <<e>>
    ELSE IF e.timestamp - s[Len(s)].timestamp > 0
         THEN Append(InsertNewestFirst(SubSeq(s, 1, Len(s) - 1), e), s[Len(s)])
         ELSE Append(s, e)

\* s.sort((a, b) => new Date(b.timestamp).getTime() - new Date(a.timestamp).getTime()):
\* descending and stable
RECURSIVE SortNewestFirst(_)
SortNewestFirst(s) ==
    IF s = <<>> THEN <<>>
    ELSE InsertNewestFirst(SortNewestFirst(SubSeq(s, 1, Len(s) - 1)), s[Len(s)])

\* the filters of a query: a parameter that is absent or empty filters nothing
FilterAlerts(list, params) ==
    LET byStatus == IF "status" \in DOMAIN params /\ params.status # ""
                    THEN FilterBy(list, "status", params.status)
                    ELSE list
        byType == IF "type" \in DOMAIN params /\ params.type # ""
                  THEN FilterBy(byStatus, "type", params.type)
                  ELSE byStatus
    IN  IF "severity" \in DOMAIN params /\ params.severity # ""
        THEN FilterBy(byType, "severity", params.severity)
        ELSE byType

\* the queries GET /api/alerts may receive
StoreQueries ==
    {f @@ l @@ o :
        f \in {<<>>, [status |-> "active"], [status |-> ""],
               [type |-> "theft", severity |-> "high"]},
        l \in {<<>>} \cup {("limit" :> x) : x \in {[negative |-> FALSE, digits |-> <<2>>], [negative |-> TRUE, digits |-> <<1>>]}},
        o \in {<<>>} \cup {("offset" :> x) : x \in {[negative |-> FALSE, digits |-> <<1>>], [negative |-> TRUE, digits |-> <<1>>]}}}

\* GET /api/alerts of the in-memory API
StoreGET ==
    /\ phase = "idle"
    /\ phase' = "done"
    /\ handler' = "storeGET"
    /\ UNCHANGED <<dashboardVars, viewVars, monitorVars, pageVars>>
    /\ call' = NoCall
    /\ reply' = NoReply
    /\ \E params \in StoreQueries :
        LET limit == ParseSignedInt(ParamOr(params, "limit", [negative |-> FALSE, digits |-> <<5, 0>>]))
            offset == ParseSignedInt(ParamOr(params, "offset", [negative |-> FALSE, digits |-> <<0>>]))
            filteredAlerts == SortNewestFirst(FilterAlerts(mockAlerts, params))
            paginatedAlerts == Slice(filteredAlerts, offset, offset + limit)
        IN  /\ request' = [received |-> TRUE, params |-> params]
            /\ response' = [status |-> 200,
                            body |-> [alerts |-> paginatedAlerts,
                                      total |-> Len(filteredAlerts),
                                      offset |-> offset,
                                      limit |-> limit]]
    /\ UNCHANGED mockAlerts

\* a body that names the four required fields
FullAlertBody ==
    [parses |-> TRUE, type |-> "theft", severity |-> "high", confidence |-> 91,
     location |-> "Camera 3 - Exit", description |-> "Item concealed",
     metadata |-> [cameraId |-> "cam_003"]]

\* the bodies POST /api/alerts may receive: not JSON, empty, complete,
\* complete with values outside the Alert type and a status of its own, with
\* one required field absent, with one required field empty
CreateBodies ==
    {[parses |-> FALSE], [parses |-> TRUE], FullAlertBody,
     [parses |-> TRUE, type |-> "intrusion", severity |-> "critical",
      location |-> "Camera 3 - Exit", description |-> "Item concealed",
      status |-> "resolved"],
     [FullAlertBody EXCEPT !.location = ""]}
    \cup {Pick(FullAlertBody, DOMAIN FullAlertBody \ {f}) :
            f \in {"type", "severity", "location", "description"}}

\* !body[field] of a body field that holds a string
Missing(body, field) == field \notin DOMAIN body \/ body[field] = ""

\* alert_${Date.now()}_${Math.random().toString(36).substr(2, 9)}: the random
\* part differs from one alert to the next
NewAlertId(now, serial) == "alert_" \o ToString(now) \o "_" \o ToString(serial)

\* const newAlert: Alert = {...}
NewAlert(body, now, serial) ==
    [id |-> NewAlertId(now, serial),
     timestamp |-> now,
     type |-> body.type,
     severity |-> body.severity,
     confidence |-> IF "confidence" \in DOMAIN body THEN body.confidence ELSE 0,
     location |-> body.location,
     description |-> body.description,
     status |-> "active",
     metadata |-> IF "metadata" \in DOMAIN body THEN body.metadata ELSE <<>>]

\* mockAlerts.push(newAlert)
UnshiftAtEnd(list, newAlert) == Append(list, newAlert)

\* mockAlerts.unshift(newAlert)
Unshift(list, newAlert) == <<newAlert>> \o list

\* POST /api/alerts of the in-memory API
StorePOST ==
    /\ phase = "idle"
    /\ phase' = "done"
    /\ handler' = "storePOST"
    /\ UNCHANGED <<dashboardVars, viewVars, monitorVars, pageVars>>
    /\ call' = NoCall
    /\ reply' = NoReply
    /\ \E body \in CreateBodies, now \in Instants :
        /\ request' = [received |-> TRUE, body |-> body]
        /\ IF ~body.parses
           THEN /\ response' = [status |-> 500,
                                body |-> [error |-> "Internal server error"]]
                /\ UNCHANGED mockAlerts
           ELSE IF \/ Missing(body, "type") \/ Missing(body, "severity")
                   \/ Missing(body, "location") \/ Missing(body, "description")
           THEN /\ response' =
                     [status |-> 400,
                      body |-> [error |-> "Missing required fields: type, severity, location, description"]]
                /\ UNCHANGED mockAlerts
           ELSE /\ Len(mockAlerts) < Len(InitialAlerts) + MaxPosts
                /\ LET newAlert == NewAlert(body, now, Len(mockAlerts))
                   IN  /\ mockAlerts' = Unshift(mockAlerts, newAlert)
                       /\ response' = [status |-> 201, body |-> newAlert]

\* the last path segments PUT /api/alerts/[id] may receive: none, the name of
\* the route, the id of a stored alert, the id of an alert POST created
UpdatePaths == {"", "alerts", "alert_001", NewAlertId(1, 3)}

\* the bodies PUT /api/alerts/[id] may receive: not JSON, without status, with
\* an empty status, with a status of the Alert type, with another status
UpdateBodies ==
    {[parses |-> FALSE], [parses |-> TRUE],
     [parses |-> TRUE, status |-> ""],
     [parses |-> TRUE, status |-> "acknowledged"],
     [parses |-> TRUE, status |-> "deleted"]}

\* mockAlerts.findIndex((alert) => alert.id === alertId), counted from 1; 0
\* when no alert has the id
FindIndex(list, alertId) ==
    IF \E i \in 1..Len(list) : list[i].id = alertId
    THEN CHOOSE i \in 1..Len(list) :
            /\ list[i].id = alertId
            /\ \A j \in 1..(i - 1) : list[j].id # alertId
    ELSE 0

\* the alert with the new status moved to the front of the store
SetStatusAndMoveToFront(list, alertIndex, status) ==
    <<[list[alertIndex] EXCEPT !.status = status]>>
    \o SubSeq(list, 1, alertIndex - 1)
    \o SubSeq(list, alertIndex + 1, Len(list))

\* mockAlerts[alertIndex].status = body.status
SetStatus(list, alertIndex, status) ==
    [list EXCEPT ![alertIndex].status = status]

\* PUT /api/alerts/[id] of the in-memory API
StorePUT ==
    /\ phase = "idle"
    /\ phase' = "done"
    /\ handler' = "storePUT"
    /\ UNCHANGED <<dashboardVars, viewVars, monitorVars, pageVars>>
    /\ call' = NoCall
    /\ reply' = NoReply
    /\ \E alertId \in UpdatePaths, body \in UpdateBodies :
        LET alertIndex == FindIndex(mockAlerts, alertId)
        IN  /\ request' = [received |-> TRUE, alertId |-> alertId, body |-> body]
            /\ IF alertId = ""
               THEN /\ response' = [status |-> 400,
                                    body |-> [error |-> "Alert ID required"]]
                    /\ UNCHANGED mockAlerts
               ELSE IF ~body.parses
               THEN /\ response' = [status |-> 500,
                                    body |-> [error |-> "Internal server error"]]
                    /\ UNCHANGED mockAlerts
               ELSE IF Missing(body, "status")
               THEN /\ response' = [status |-> 400,
                                    body |-> [error |-> "Status field required"]]
                    /\ UNCHANGED mockAlerts
               ELSE IF alertIndex = 0
               THEN /\ response' = [status |-> 404,
                                    body |-> [error |-> "Alert not found"]]
                    /\ UNCHANGED mockAlerts
               ELSE /\ mockAlerts' = SetStatus(mockAlerts, alertIndex, body.status)
                    /\ response' = [status |-> 200, body |-> mockAlerts'[alertIndex]]

NextStore == StoreGET \/ StorePOST \/ StorePUT \/ NextRequest

\* the in-memory alerts API under every sequence of requests
SpecStore == Init /\ [][NextStore]_vars

(***************************************************************************)
(* The LiveMonitor page of src/app/video-upload/page.tsx (from line 855).  *)
(* A click is handled against the state the page was last rendered with,   *)
(* and the page is rendered again before the next event is handled.        *)
(***************************************************************************)
\* largest number of alerts the page creates
MaxCreated == 11
\* largest number of detect-frame requests that await their response
MaxInFlight == 1

\* the results /api/detect-frame may answer with
MonitorResults ==
    {[present |-> TRUE, violence_detected |-> v, confidence |-> c, threat_level |-> t] :
        v \in {TRUE}, c \in {70, 80, 81}, t \in {"High"}}
    \cup {[present |-> TRUE, violence_detected |-> FALSE, confidence |-> 90,
           threat_level |-> "Low"]}

\* startCamera up to the await of getUserMedia
StartCamera ==
    /\ ~stream
    /\ ~isLoading
    /\ isLoading' = TRUE
    /\ UNCHANGED <<stream, isDetecting, detectionResults, alerts,
                   detectionIntervalRef, intervals, inFlight, created>>
    /\ UNCHANGED <<routeVars, dashboardVars, viewVars, mockAlerts, pageVars>>

\* startCamera after getUserMedia: the stream is kept when access was
\* granted; the finally block clears isLoading
CameraAnswered ==
    /\ isLoading
    /\ \E granted \in BOOLEAN : stream' = granted
    /\ isLoading' = FALSE
    /\ UNCHANGED <<isDetecting, detectionResults, alerts,
                   detectionIntervalRef, intervals, inFlight, created>>
    /\ UNCHANGED <<routeVars, dashboardVars, viewVars, mockAlerts, pageVars>>

\* startDetection, from the button shown while isDetecting is false
StartDetection ==
    /\ stream
    /\ ~isDetecting
    /\ isDetecting' = TRUE
    /\ detectionIntervalRef' = TRUE
    /\ intervals' = intervals + 1
    /\ UNCHANGED <<stream, isLoading, detectionResults, alerts, inFlight, created>>
    /\ UNCHANGED <<routeVars, dashboardVars, viewVars, mockAlerts, pageVars>>

\* the body of stopDetection
StopDetectionBody ==
    /\ isDetecting' = FALSE
    /\ IF detectionIntervalRef
       THEN /\ intervals' = intervals - 1
            /\ detectionIntervalRef' = FALSE
       ELSE UNCHANGED <<intervals, detectionIntervalRef>>
    /\ detectionResults' = NoDetection

\* stopDetection, from the button shown while isDetecting is true
StopDetection ==
    /\ stream
    /\ isDetecting
    /\ StopDetectionBody
    /\ UNCHANGED <<stream, isLoading, alerts, inFlight, created>>
    /\ UNCHANGED <<routeVars, dashboardVars, viewVars, mockAlerts, pageVars>>

\* stopCamera, from the button shown while there is a stream
StopCamera ==
    /\ stream
    /\ stream' = FALSE
    /\ StopDetectionBody
    /\ UNCHANGED <<isLoading, alerts, inFlight, created>>
    /\ UNCHANGED <<routeVars, dashboardVars, viewVars, mockAlerts, pageVars>>

\* captureAndAnalyze, called by a running interval, up to the await of fetch
CaptureAndAnalyze ==
    /\ intervals > 0
    /\ inFlight < MaxInFlight
    /\ inFlight' = inFlight + 1
    /\ UNCHANGED <<stream, isLoading, isDetecting, detectionResults, alerts,
                   detectionIntervalRef, intervals, created>>
    /\ UNCHANGED <<routeVars, dashboardVars, viewVars, mockAlerts, pageVars>>

\* result.confidence >= 80 ? "theft" : "suspicious"
AlertTypeInclusive(confidence) == IF confidence >= 80 THEN "theft" ELSE "suspicious"

\* result.confidence > 80 ? "theft" : "suspicious"
AlertType(confidence) == IF confidence > 80 THEN "theft" ELSE "suspicious"

\* const newAlert: AlertItem = {...}; now is the instant of Date.now() and
\* new Date()
NewAlertItem(result, now) ==
    [id |-> ToString(now),
     message |-> "Theft detected with " \o ToString(result.confidence) \o "% confidence",
     confidence |-> result.confidence,
     timestamp |-> now,
     type |-> AlertType(result.confidence)]

\* captureAndAnalyze after the await of fetch: an ok response is read and
\* shown, and makes an alert when it reports a detection above 70, kept in
\* front of prev.slice(0, 9); another
\* response and a failed request change nothing.  Alerts are created at
\* instants that increase from one alert to the next.
DetectFrameAnswered ==
    /\ inFlight > 0
    /\ inFlight' = inFlight - 1
    /\ \E outcome \in {"ok", "notOk", "rejected"}, result \in MonitorResults :
        IF outcome = "ok"
        THEN /\ detectionResults' = result
             /\ IF result.violence_detected /\ result.confidence > 70
                THEN /\ created < MaxCreated
                     /\ created' = created + 1
                     /\ alerts' = <<NewAlertItem(result, created + 1)>>
                                  \o Slice(alerts, 0, 9)
                ELSE UNCHANGED <<alerts, created>>
        ELSE UNCHANGED <<detectionResults, alerts, created>>
    /\ UNCHANGED <<stream, isLoading, isDetecting, detectionIntervalRef, intervals>>
    /\ UNCHANGED <<routeVars, dashboardVars, viewVars, mockAlerts, pageVars>>

NextMonitor ==
    \/ StartCamera \/ CameraAnswered \/ StartDetection \/ StopDetection
    \/ StopCamera \/ CaptureAndAnalyze \/ DetectFrameAnswered

\* the LiveMonitor page under every order of clicks, interval ticks and
\* responses
SpecMonitor == Init /\ [][NextMonitor]_vars

(***************************************************************************)
(* The AlertsPage of src/unnamed/part_004.  Its state alerts and loading   *)
(* is written pageAlerts and pageLoading.  The search term and the three   *)
(* filters are left at their initial values, so the list shown is alerts.  *)
(***************************************************************************)
\* largest number of PUT requests that await their response
MaxPuts == 3

\* the alert lists GET /api/alerts may answer with
FetchedAlerts ==
    {<< [id |-> "alert_001", type |-> "theft", severity |-> "high", status |-> "active"] >>,
     << [id |-> "alert_001", type |-> "theft", severity |-> "high", status |-> "active"],
        [id |-> "alert_002", type |-> "suspicious", severity |-> "medium",
         status |-> "acknowledged"],
        [id |-> "alert_003", type |-> "system", severity |-> "low", status |-> "resolved"] >>}

\* fetchAlerts after the await of fetch: the alerts of an ok response are
\* kept; the finally block clears loading
FetchAlertsAnswered ==
    /\ pageLoading
    /\ \E outcome \in {"ok", "notOk", "rejected"}, data \in FetchedAlerts :
        pageAlerts' = IF outcome = "ok" THEN data ELSE pageAlerts
    /\ pageLoading' = FALSE
    /\ UNCHANGED pendingPuts
    /\ UNCHANGED <<routeVars, dashboardVars, viewVars, mockAlerts, monitorVars>>

\* the statuses the buttons of an alert ask for
Offered(status) ==
    IF status = "active" THEN {"acknowledged", "resolved"}
    ELSE IF status = "acknowledged" THEN {"resolved"}
    ELSE {}

\* a click on Acknowledge or Resolve of a shown alert: updateAlertStatus up
\* to the await of fetch
UpdateAlertStatus ==
    /\ Len(pendingPuts) < MaxPuts
    /\ \E i \in 1..Len(pageAlerts) :
        \E newStatus \in Offered(pageAlerts[i].status) :
            pendingPuts' = Append(pendingPuts,
                                  [alertId |-> pageAlerts[i].id, newStatus |-> newStatus])
    /\ UNCHANGED <<pageAlerts, pageLoading>>
    /\ UNCHANGED <<routeVars, dashboardVars, viewVars, mockAlerts, monitorVars>>

\* prev.map((alert) => (alert.id === alertId ? { ...alert, status: newStatus } : alert))
MapStatus(prev, alertId, newStatus) ==
    [i \in 1..Len(prev) |->
        IF prev[i].id = alertId THEN [prev[i] EXCEPT !.status = newStatus] ELSE prev[i]]

\* s without its k-th element
Without(s, k) == SubSeq(s, 1, k - 1) \o SubSeq(s, k + 1, Len(s))

\* updateAlertStatus after the await of fetch, for any request that awaits
\* its response: an ok response sets the status of the alert, another
\* response and a failed request change nothing
PutAnswered ==
    /\ \E k \in 1..Len(pendingPuts), outcome \in {"ok", "notOk", "rejected"} :
        /\ pendingPuts' = Without(pendingPuts, k)
        /\ pageAlerts' = IF outcome = "ok"
                         THEN MapStatus(pageAlerts, pendingPuts[k].alertId,
                                        pendingPuts[k].newStatus)
                         ELSE pageAlerts
    /\ UNCHANGED pageLoading
    /\ UNCHANGED <<routeVars, dashboardVars, viewVars, mockAlerts, monitorVars>>

NextPage == FetchAlertsAnswered \/ UpdateAlertStatus \/ PutAnswered

\* the AlertsPage under every order of clicks and responses
SpecPage == Init /\ [][NextPage]_vars

(***************************************************************************)
(* Vocabulary of the properties: what a returned summary says, read off    *)
(* the response itself.                                                    *)
(***************************************************************************)
\* an analysis run has returned a summary
Answered == phase = "done" /\ response.status = 200

Results == response.results

\* the detected=true events of the returned summary, in the order aggregated
Aggregated == SelectSeq(Results.detections, LAMBDA d : d.detected = TRUE)

TimestampsOf(s) == [i \in 1..Len(s) |-> s[i].timestamp]

Ascending(s) == \A i \in 1..(Len(s) - 1) : s[i].timestamp <= s[i + 1].timestamp

\* the three-band classification of a confidence
Band(confidence) ==
    CASE confidence > 85 -> "High"
      [] confidence > 70 /\ confidence <= 85 -> "Medium"
      [] confidence <= 70 -> "Low"

\* positions of s at which an incident starts
IncidentStarts(s) ==
    {i \in 1..Len(s) : i = 1 \/ s[i].timestamp > s[i - 1].timestamp + 30}

\* the position at which the k-th incident of s starts
StartOf(s, k) ==
    CHOOSE i \in IncidentStarts(s) :
        Cardinality({j \in IncidentStarts(s) : j < i}) = k - 1

\* the last position of the incident that starts at position i
LastOf(s, i) ==
    CHOOSE j \in i..Len(s) :
        /\ \A m \in (i + 1)..j : m \notin IncidentStarts(s)
        /\ j = Len(s) \/ j + 1 \in IncidentStarts(s)

\* {start, end} of the incidents of s
ExpectedIncidents(s) ==
    [k \in 1..Cardinality(IncidentStarts(s)) |->
        [start |-> s[StartOf(s, k)].timestamp,
         end |-> s[LastOf(s, StartOf(s, k))].timestamp + 10]]

\* {start, end} of the returned incidents
Spans(ranges) ==
    [k \in 1..Len(ranges) |-> [start |-> ranges[k].start, end |-> ranges[k].end]]

\* the orderings of s
Orderings(s) ==
    {[i \in 1..Len(s) |-> s[f[i]]] :
        f \in {g \in [1..Len(s) -> 1..Len(s)] :
                  \A a, b \in 1..Len(s) : g[a] = g[b] => a = b}}

(***************************************************************************)
(* Properties.                                                             *)
(***************************************************************************)
\* C1: over detected events in ascending timestamp order, an incident
\* {start: t, end: t+10} starts exactly at the first event and at every event
\* more than 30 after its predecessor (exactly 30 does not split); every other
\* event only moves the last incident's end to its timestamp + 10.  Timestamps
\* [10, 15, 50, 52] give exactly {10, 25} and {50, 62}.
C1_Clustering ==
    Answered /\ Ascending(Aggregated) =>
        /\ Spans(Results.summary.timeRanges) = ExpectedIncidents(Aggregated)
        /\ TimestampsOf(Aggregated) = <<10, 15, 50, 52>> =>
              Spans(Results.summary.timeRanges) =
                  <<[start |-> 10, end |-> 25], [start |-> 50, end |-> 62]>>
        /\ TimestampsOf(Aggregated) = <<15, 45>> =>
              Spans(Results.summary.timeRanges) = <<[start |-> 15, end |-> 55]>>

\* a synthesized batch with timestamps 10, 15, 50, 52 was clustered in two
C1_Witness ==
    /\ Answered
    /\ handler = "simulate"
    /\ TimestampsOf(Aggregated) = <<10, 15, 50, 52>>
    /\ Len(Results.summary.timeRanges) = 2

\* C2: any two orderings of the same backend detections give the same
\* summary and statistics from POST /api/analyze-video.
C2_SortIndependence ==
    Answered /\ handler = "post" =>
        \A other \in Orderings(reply.detections) :
            LET shaped == ShapeResults([reply EXCEPT !.detections = other],
                                       LeastBoxes(Len(other))) IN
            /\ shaped.summary = Results.summary
            /\ shaped.averageConfidence = Results.averageConfidence
            /\ shaped.overallThreatLevel = Results.overallThreatLevel

\* C3: over a non-empty set of detected events, averageConfidence is the
\* floor of the mean of their confidences and lies in 0..100.
C3_AverageIsFloorOfMean ==
    Answered /\ Aggregated # <<>> =>
        /\ Results.averageConfidence * Len(Aggregated) <= SumConfidence(Aggregated)
        /\ SumConfidence(Aggregated) < (Results.averageConfidence + 1) * Len(Aggregated)
        /\ Results.averageConfidence \in 0..100

\* C4: with no detected event, POST /api/analyze-video returns
\* averageConfidence 0, overallThreatLevel Low, no time ranges and zero
\* counts, whatever else the backend replied.
C4_EmptyDetectedSet ==
    Answered /\ handler = "post" /\ Aggregated = <<>> =>
        /\ Results.averageConfidence = 0
        /\ Results.overallThreatLevel = "Low"
        /\ Results.summary.timeRanges = <<>>
        /\ Results.summary.totalDetections = 0
        /\ Results.summary.highConfidenceDetections = 0

\* C5: the synthesizer's overallThreatLevel is High iff averageConfidence > 85,
\* Medium iff 70 < averageConfidence <= 85, Low otherwise; 85 gives Medium and
\* 70 gives Low.
C5_ThreatLevelStrict ==
    Answered /\ handler = "simulate" =>
        /\ Results.overallThreatLevel = "High" <=> Results.averageConfidence > 85
        /\ Results.overallThreatLevel = "Medium" <=>
              (Results.averageConfidence > 70 /\ Results.averageConfidence <= 85)
        /\ Results.overallThreatLevel = "Low" <=> Results.averageConfidence <= 70
        /\ Results.averageConfidence = 85 => Results.overallThreatLevel = "Medium"
        /\ Results.averageConfidence = 70 => Results.overallThreatLevel = "Low"

\* a synthesized batch whose average is exactly 85 was classified Medium
C5_Witness ==
    /\ Answered
    /\ handler = "simulate"
    /\ Results.averageConfidence = 85
    /\ Results.overallThreatLevel = "Medium"

\* C6: in every summary of POST /api/analyze-video, overallThreatLevel is the
\* band of the same summary's averageConfidence.
C6_LevelFromAverage ==
    Answered /\ handler = "post" =>
        Results.overallThreatLevel = Band(Results.averageConfidence)

\* C7: highConfidenceDetections is the number of detected events with
\* confidence strictly above 80 (80 itself is not counted) and never exceeds
\* totalDetections.
C7_HighConfidenceStrict ==
    Answered =>
        /\ Results.summary.highConfidenceDetections =
              Cardinality({i \in 1..Len(Aggregated) : Aggregated[i].confidence > 80})
        /\ Results.summary.highConfidenceDetections <= Results.summary.totalDetections

\* a backend reply with a detected event at exactly 80, one above 80 and an
\* undetected one above 80 was counted
C7_Witness ==
    /\ Answered
    /\ handler = "post"
    /\ \E i \in 1..Len(Aggregated) : Aggregated[i].confidence = 80
    /\ \E i \in 1..Len(Aggregated) : Aggregated[i].confidence > 80
    /\ \E i \in 1..Len(Results.detections) :
          ~Results.detections[i].detected /\ Results.detections[i].confidence > 80
    /\ Results.summary.highConfidenceDetections = 1

\* C8: the returned timeRanges are ordered by strictly increasing start and do
\* not overlap: each incident ends before the next one starts.
C8_OrderedDisjoint ==
    Answered =>
        \A k \in 1..(Len(Results.summary.timeRanges) - 1) :
            /\ Results.summary.timeRanges[k].start < Results.summary.timeRanges[k + 1].start
            /\ Results.summary.timeRanges[k].end < Results.summary.timeRanges[k + 1].start

\* C9: every returned incident has end >= start.
C9_EndNotBeforeStart ==
    Answered =>
        \A k \in 1..Len(Results.summary.timeRanges) :
            Results.summary.timeRanges[k].end >= Results.summary.timeRanges[k].start

\* C10: an incident's severity is fixed when it is started, from the
\* triggering event's confidence only; an event that extends the incident
\* changes its end and neither its severity nor its start nor any other
\* incident.
C10_SeverityFixedAtStart ==
    Answered =>
        LET s == Aggregated
            upTo(k) == IF handler = "simulate" THEN SimRangesUpTo(s, k)
                       ELSE RangesUpTo(s, k)
        IN
        /\ Results.summary.timeRanges = upTo(Len(s))
        /\ Len(Results.summary.timeRanges) = Cardinality(IncidentStarts(s))
        /\ \A k \in 1..Len(Results.summary.timeRanges) :
              /\ Results.summary.timeRanges[k].start = s[StartOf(s, k)].timestamp
              /\ Results.summary.timeRanges[k].severity = Band(s[StartOf(s, k)].confidence)
        /\ \A i \in 1..Len(s) :
              LET before == upTo(i - 1)
                  after == upTo(i)
              IN
              IF i \in IncidentStarts(s)
              THEN after = Append(before, [start |-> s[i].timestamp,
                                           end |-> s[i].timestamp + 10,
                                           severity |-> Band(s[i].confidence)])
              ELSE /\ Len(after) = Len(before)
                   /\ \A j \in 1..(Len(before) - 1) : after[j] = before[j]
                   /\ after[Len(after)].start = before[Len(before)].start
                   /\ after[Len(after)].severity = before[Len(before)].severity
                   /\ after[Len(after)].end = s[i].timestamp + 10

\* an incident started by a Low event was extended by a High event and is
\* still Low
C10_Witness ==
    /\ Answered
    /\ handler = "post"
    /\ Len(Aggregated) = 2
    /\ Aggregated[1].confidence = 70
    /\ Aggregated[2].confidence = 90
    /\ Len(Results.summary.timeRanges) = 1
    /\ Results.summary.timeRanges[1].severity = "Low"
    /\ Results.summary.timeRanges[1].end = Aggregated[2].timestamp + 10

\* C11: in POST /api/analyze-video only detected events are aggregated:
\* totalDetections counts them, and an undetected event neither starts nor
\* extends an incident, is not counted as high-confidence and does not
\* separate two detected events; the summary is that of the reply without its
\* undetected events.
C11_OnlyDetectedParticipate ==
    Answered /\ handler = "post" =>
        /\ Results.summary.totalDetections =
              Cardinality({i \in 1..Len(Results.detections) :
                              Results.detections[i].detected})
        /\ Spans(Results.summary.timeRanges) = ExpectedIncidents(Aggregated)
        /\ Results.summary.highConfidenceDetections =
              Cardinality({i \in 1..Len(Aggregated) : Aggregated[i].confidence > 80})
        /\ Results.summary =
              ShapeResults([reply EXCEPT
                  !.detections = SelectSeq(reply.detections,
                                           LAMBDA d : d.detected = TRUE)],
                           LeastBoxes(Len(Aggregated))).summary

\* an undetected event at 50 with confidence 90 lies between detected events
\* at 15 and 45, which stay one incident
C11_Witness ==
    /\ Answered
    /\ handler = "post"
    /\ TimestampsOf(Results.detections) = <<15, 50, 45>>
    /\ Results.detections[1].detected
    /\ ~Results.detections[2].detected
    /\ Results.detections[2].confidence = 90
    /\ Results.detections[3].detected
    /\ Results.summary.totalDetections = 2
    /\ Spans(Results.summary.timeRanges) = <<[start |-> 15, end |-> 55]>>

\* C12: every result of simulateVideoAnalysis, whatever the draws and the
\* options, has totalFrames in 1000..3999, processedFrames = totalFrames,
\* processingTime in 30..89 and 2 to 9 detections, each detected with a
\* confidence in 60..99, a timestamp in [0, 300) and a boundingBox with x in
\* 0..799, y in 0..599, width in 100..299 and height in 150..449.
C12_SynthesizedRanges ==
    Answered /\ handler = "simulate" =>
        /\ Results.totalFrames \in 1000..3999
        /\ Results.processedFrames = Results.totalFrames
        /\ Results.processingTime \in 30..89
        /\ Len(Results.detections) \in 2..9
        /\ \A i \in 1..Len(Results.detections) :
              LET d == Results.detections[i] IN
              /\ d.detected = TRUE
              /\ d.confidence \in 60..99
              /\ d.timestamp >= 0 /\ d.timestamp < 300
              /\ d.boundingBox.x \in 0..799
              /\ d.boundingBox.y \in 0..599
              /\ d.boundingBox.width \in 100..299
              /\ d.boundingBox.height \in 150..449

\* a run with the greatest frame and time draws returned nine detections, the
\* first with every draw the least and the last with every draw the greatest
C12_Witness ==
    /\ Answered
    /\ handler = "simulate"
    /\ Results.totalFrames = 3999
    /\ Results.processingTime = 89
    /\ Len(Results.detections) = 9
    /\ Results.detections[1].confidence = 60
    /\ Results.detections[1].boundingBox = [x |-> 0, y |-> 0, width |-> 100, height |-> 150]
    /\ Results.detections[9].confidence = 99
    /\ Results.detections[9].timestamp = 299
    /\ Results.detections[9].boundingBox =
          [x |-> 799, y |-> 599, width |-> 299, height |-> 449]

\* C13: every returned summary, synthesized or shaped from a backend reply,
\* has totalFrames and processedFrames that are non-negative integers with
\* processedFrames <= totalFrames, whatever the backend reported.
C13_FrameCounts ==
    Answered =>
        /\ Results.totalFrames \in Nat
        /\ Results.processedFrames \in Nat
        /\ Results.processedFrames <= Results.totalFrames

\* C14: a detection record without timestamp or confidence never reaches a
\* returned summary: every returned detection carries both, and every
\* incident carries its start and its end.
C14_NoUndefinedInSummary ==
    Answered /\ handler = "post" =>
        /\ \A i \in 1..Len(Results.detections) :
              {"timestamp", "confidence"} \subseteq DOMAIN Results.detections[i]
        /\ \A i \in 1..Len(Results.summary.timeRanges) :
              {"start", "end"} \subseteq DOMAIN Results.summary.timeRanges[i]

\* C15: when the backend call of POST /api/analyze-video fails (the backend
\* cannot be reached, the call is cut off or the answer is non-2xx), the
\* response carries a results object of the synthesizer's shape.
C15_FallsBackToSynthesizer ==
    phase = "done" /\ handler = "post" /\ call.made /\ call.outcome # "ok" =>
        /\ "results" \in DOMAIN response
        /\ DOMAIN response.results =
              {"totalFrames", "processedFrames", "detections", "overallThreatLevel",
               "averageConfidence", "processingTime", "summary"}

(***************************************************************************)
(* Vocabulary of the proxy properties.                                     *)
(***************************************************************************)
\* the handler called the backend and the call failed
UpstreamFailed == phase = "done" /\ call.made /\ call.outcome # "ok"

\* what a response carries besides its status and its error texts
Payload(r) == DOMAIN r \ {"status", "error", "details"}

\* the request fails a validation rule of its handler: a parsed body without
\* a required field, or with an image string that is no image data URL
Invalid ==
    \/ /\ handler = "detectFrame"
       /\ request.body.parses
       /\ \/ Falsy(request.body, "image")
          \/ /\ request.body.image.type = "string"
             /\ ~StartsWith(request.body.image.value, <<"data:", "image/">>)
    \/ /\ handler = "alertsPOST"
       /\ request.body.parses
       /\ \E f \in {"type", "severity", "location", "description"} :
             Falsy(request.body, f)
    \/ /\ handler = "alertsPUT"
       /\ request.alertId # ""
       /\ request.body.parses
       /\ Falsy(request.body, "status")

\* the request is malformed: it is invalid, its body is not JSON, its image
\* is not a string or its path names no alert
Malformed ==
    \/ Invalid
    \/ handler \in {"detectFrame", "alertsPOST", "alertsPUT"} /\ ~request.body.parses
    \/ handler = "alertsPUT" /\ request.alertId = ""
    \/ /\ handler = "detectFrame"
       /\ "image" \in DOMAIN request.body
       /\ request.body.image.type # "string"

\* C16: whenever the backend call of a proxy handler fails (unreachable,
\* cut off by the timeout, non-2xx), the response has a 5xx status, carries
\* a fallback payload and carries an error field.
C16_DegradedResponse ==
    UpstreamFailed =>
        /\ response.status \in 500..599
        /\ "error" \in DOMAIN response
        /\ Payload(response) # {}

\* C17: in detect-frame POST, alerts POST and alerts PUT, an invalid request
\* is answered 4xx without a call to the backend, a failed backend call is
\* never answered 4xx, and a malformed request is never answered 5xx.
C17_ValidationIs4xx ==
    phase = "done" /\ handler \in {"detectFrame", "alertsPOST", "alertsPUT"} =>
        /\ Invalid => response.status \in 400..499 /\ ~call.made
        /\ UpstreamFailed => response.status \notin 400..499
        /\ Malformed => response.status \notin 500..599

\* C18: every call a proxy handler makes to the backend is given an explicit
\* timeout.
C18_ExplicitTimeout ==
    phase = "done" /\ call.made => "timeout" \in DOMAIN call /\ call.timeout > 0

\* the runs of fetchDashboardData that have completed
Completed == {k \in 1..MaxPolls : polls[k] = "done"}

\* the run among runs that started last
Latest(runs) == CHOOSE k \in runs : \A j \in runs : j <= k

\* C19: stats (with backendConnected) and recentAlerts are never those of a
\* poll started before the latest started poll that has completed: the
\* response of an older poll arriving later is not applied.
C19_NewestCompletedWins ==
    Completed # {} =>
        /\ statsPoll >= Latest(Completed)
        /\ alertsPoll >= Latest(Completed)

\* C20: the document exportResults writes, once parsed, holds under
\* analysis every field of the results the route returned, with each
\* event's boundingBox, the summary and the events in the returned order.
C20_ExportRoundTrip ==
    exported # NoExport =>
        /\ "analysis" \in DOMAIN Parse(exported)
        /\ Parse(exported).analysis = returned.results

(***************************************************************************)
(* Properties of the in-memory alerts API.                                 *)
(***************************************************************************)
\* the request body names field with a non-empty value
Present(body, field) == field \in DOMAIN body /\ body[field] # ""

\* the request body names the four fields POST requires
NamesRequired(body) ==
    \A f \in {"type", "severity", "location", "description"} : Present(body, f)

\* C21: a POST to the in-memory alerts API whose JSON body names type,
\* severity, location and description is answered 201 with the created alert,
\* whose status is "active", and leaves the store holding the new alert
\* followed by the alerts it held before; a POST whose JSON body lacks one of
\* the four is answered 400 and leaves the store as it was
C21_PostPrepends ==
    [][(handler' = "storePOST" /\ request'.body.parses) =>
         IF NamesRequired(request'.body)
         THEN /\ response'.status = 201
              /\ response'.body.status = "active"
              /\ \A f \in {"type", "severity", "location", "description"} :
                    response'.body[f] = request'.body[f]
              /\ mockAlerts' = <<response'.body>> \o mockAlerts
         ELSE /\ response'.status = 400
              /\ mockAlerts' = mockAlerts]_vars

\* a second alert was created in front of a store whose first alert a PUT had
\* changed before
C21_Witness ==
    /\ handler = "storePOST"
    /\ response.status = 201
    /\ Len(mockAlerts) = Len(InitialAlerts) + 2
    /\ mockAlerts[1] = response.body
    /\ mockAlerts[2].status = "acknowledged"

\* C22: every alert of the store has a status among active, acknowledged and
\* resolved, a type among theft, suspicious and system and a severity among
\* low, medium and high
C22_EnumeratedValues ==
    \A i \in 1..Len(mockAlerts) :
        /\ mockAlerts[i].status \in {"active", "acknowledged", "resolved"}
        /\ mockAlerts[i].type \in {"theft", "suspicious", "system"}
        /\ mockAlerts[i].severity \in {"low", "medium", "high"}

\* alert a passes every filter the query names with a value
Matches(a, params) ==
    \A f \in {"status", "type", "severity"} \cap DOMAIN params :
        params[f] # "" => a[f] = params[f]

\* the number of stored alerts that pass every filter the query names
Matching(params) ==
    Cardinality({i \in 1..Len(mockAlerts) : Matches(mockAlerts[i], params)})

\* C23: the body of a GET holds alerts, total, offset and limit; the alerts
\* are stored alerts that pass every filter of the query, newest first, no
\* more than limit of them, and total counts the stored alerts that pass the
\* filters
C23_FilteredPage ==
    handler = "storeGET" =>
        LET body == response.body
        IN  /\ DOMAIN body = {"alerts", "total", "offset", "limit"}
            /\ \A i \in 1..Len(body.alerts) :
                  /\ \E j \in 1..Len(mockAlerts) : mockAlerts[j] = body.alerts[i]
                  /\ Matches(body.alerts[i], request.params)
            /\ \A i, j \in 1..Len(body.alerts) :
                  i < j => body.alerts[i].timestamp >= body.alerts[j].timestamp
            /\ Len(body.alerts) <= body.limit
            /\ body.total = Matching(request.params)

\* the PUT got as far as looking the alert up: it has a path segment and a
\* JSON body with a status
LooksUp(req) ==
    /\ req.alertId # ""
    /\ req.body.parses
    /\ Present(req.body, "status")

\* C24: a PUT whose id matches no stored alert is answered 404 and leaves the
\* store as it was; a PUT whose id matches a stored alert changes the status
\* of that alert to the requested one and nothing else: every other field,
\* every other alert, the length and the order of the store stay
C24_PutChangesOneStatus ==
    [][handler' = "storePUT" =>
         /\ Len(mockAlerts') = Len(mockAlerts)
         /\ LooksUp(request') =>
              IF \A i \in 1..Len(mockAlerts) : mockAlerts[i].id # request'.alertId
              THEN /\ response'.status = 404
                   /\ mockAlerts' = mockAlerts
              ELSE \E i \in 1..Len(mockAlerts) :
                      /\ mockAlerts[i].id = request'.alertId
                      /\ mockAlerts'[i] =
                            [mockAlerts[i] EXCEPT !.status = request'.body.status]
                      /\ \A j \in 1..Len(mockAlerts) :
                            j # i => mockAlerts'[j] = mockAlerts[j]]_vars

\* a PUT gave a new status to an alert that is not the first of the store
C24_Witness ==
    /\ handler = "storePUT"
    /\ response.status = 200
    /\ request.alertId = "alert_001"
    /\ Len(mockAlerts) > Len(InitialAlerts)
    /\ mockAlerts[Len(mockAlerts) - 2].status = "deleted"

(***************************************************************************)
(* Properties of the LiveMonitor page.                                     *)
(***************************************************************************)
\* C25: the alert list of the live monitor never holds more than 10 alerts
\* and holds them newest first; a response adds an alert only if it reports
\* violence_detected with a confidence above 70, the alert is put in front
\* of the first nine alerts held so far, and its type is "theft" exactly
\* when the confidence is above 80, otherwise "suspicious"
C25_LastTenNewestFirst ==
    /\ [](/\ Len(alerts) <= 10
          /\ \A i, j \in 1..Len(alerts) :
                i < j => alerts[i].timestamp > alerts[j].timestamp)
    /\ [][alerts' # alerts =>
            /\ detectionResults'.present
            /\ detectionResults'.violence_detected
            /\ detectionResults'.confidence > 70
            /\ alerts'[1].confidence = detectionResults'.confidence
            /\ alerts'[1].type = "theft" <=> detectionResults'.confidence > 80
            /\ alerts'[1].type = "suspicious" <=> detectionResults'.confidence <= 80
            /\ Tail(alerts') = SubSeq(alerts, 1, IF Len(alerts) < 9 THEN Len(alerts) ELSE 9)]_vars

\* the list is full, its oldest alerts have been dropped, and it holds a
\* suspicious alert of confidence 80 in front of a theft alert
C25_Witness ==
    /\ Len(alerts) = 10
    /\ alerts[10].timestamp > 1
    /\ alerts[1].confidence = 80
    /\ alerts[1].type = "suspicious"
    /\ alerts[2].type = "theft"

\* C26: while detection is stopped detectionResults is null and no alert is
\* added, whatever detect-frame responses arrive, and no more than one
\* detection interval runs at any time
C26_StoppedStaysQuiet ==
    /\ [](~isDetecting => detectionResults = NoDetection)
    /\ [][(~isDetecting /\ ~isDetecting') => alerts' = alerts]_vars
    /\ [](intervals <= 1)

(***************************************************************************)
(* Properties of the VideoUpload page under clicks, timers and responses.  *)
(***************************************************************************)
\* a call of startAnalysis stands at one of its awaits
Running == analysis.stage \in {"fetching", "reading"}

\* C27: whenever analysisResults is set a file is selected and the results
\* come from an analysis that was started for that file, and an analysis is
\* started only while no other one is running
C27_ResultsOfSelectedFile ==
    /\ [](analysisResults # NoResults =>
            /\ selectedFile # NoFile
            /\ resultsFor = selectedFile.name)
    /\ [][(analysis' # analysis /\ analysis'.stage = "fetching") => ~Running]_vars

\* C28: while startAnalysis awaits the result the progress is at most 95,
\* and the progress becomes 100 only in the step in which the result arrives
C28_HeldAtNinetyFive ==
    /\ [](Running => analysisProgress <= 95)
    /\ [][(analysisProgress' = 100 /\ analysisProgress # 100) =>
            (analysis.stage = "reading" /\ ~Running')]_vars

\* C29: an analysis that ends leaves isAnalyzing false; after one that
\* failed, and until the next one is started, analysisProgress is 0 and no
\* progress interval is running, and the failure leaves analysisResults as
\* it was
C29_FailureResetsProgress ==
    /\ [][(Running /\ ~Running') => ~isAnalyzing']_vars
    /\ [][(Running /\ analysis' = FailedAnalysis) =>
            analysisResults' = analysisResults]_vars
    /\ [](analysis = FailedAnalysis =>
            /\ analysisProgress = 0
            /\ ~progressTimer
            /\ orphanTimers = 0)

(***************************************************************************)
(* Properties of the AlertsPage.                                           *)
(***************************************************************************)
\* the status an alert shows may move from one to the other
Forward(from, to) ==
    \/ from = "active" /\ to \in {"acknowledged", "resolved"}
    \/ from = "acknowledged" /\ to = "resolved"

\* C30: the status an alert shows changes only forward (active to
\* acknowledged or resolved, acknowledged to resolved), so a resolved alert
\* stays resolved, and it changes only in the step in which a PUT for that
\* alert and that status is answered
C30_StatusMovesForward ==
    [][\A i \in 1..Len(pageAlerts) :
          pageAlerts'[i].status # pageAlerts[i].status =>
            /\ Forward(pageAlerts[i].status, pageAlerts'[i].status)
            /\ \E k \in 1..Len(pendingPuts) :
                  /\ pendingPuts[k].alertId = pageAlerts[i].id
                  /\ pendingPuts[k].newStatus = pageAlerts'[i].status
                  /\ pendingPuts' = Without(pendingPuts, k)]_vars
====
